---- MODULE Spec2Model ----
(***************************************************************************)
(* Model of tests/e2e/lib/resize_storm_differential.py: the cross-browser  *)
(* differential checker for resize-storm JSONL traces.                     *)
(*                                                                         *)
(* Text that the program formats, parses or glob-matches is a sequence of  *)
(* one-character strings (<<"8","0","x","2","4">> is Python's "80x24");    *)
(* fixed program text that is only carried (a diff's details, a status)    *)
(* is a TLA+ string.                                                       *)
(***************************************************************************)
EXTENDS Integers, Sequences, FiniteSets, TLC

VARIABLES
    \* main(): the program counter, the parsed arguments and the locals
    pc, args, traces, baseline_browser, known_rules, signatures, comparisons,
    total_known, total_unknown, total_diffs, overall_status,
    \* main()'s effects: the report file, the two streams, the exit code
    report_file, stdout, stderr, exit_code,
    \* one call of extract_signature, compare_signatures, classify_diffs,
    \* parse_known_divergences
    extractCall, compareCall, classifyCall, rulesCall

mainVars == <<pc, args, traces, baseline_browser, known_rules, signatures, comparisons,
              total_known, total_unknown, total_diffs, overall_status,
              report_file, stdout, stderr, exit_code>>

vars == <<mainVars, extractCall, compareCall, classifyCall, rulesCall>>

(***************************************************************************)
(* Text helpers: str(int), int(str), str.strip                             *)
(***************************************************************************)
Digits == <<"0", "1", "2", "3", "4", "5", "6", "7", "8", "9">>

Whitespace == {" ", "\t", "\n", "\r", "\f"}

IsDigit(c) == \E d \in 1..10 : Digits[d] = c

DigitValue(c) == (CHOOSE d \in 1..10 : Digits[d] = c) - 1

RECURSIVE NatToChars(_)
NatToChars(n) ==
    IF n < 10 THEN <<Digits[n + 1]>>
    ELSE NatToChars(n \div 10) \o <<Digits[(n % 10) + 1]>>

\* str(n) / f"{n}" for an int n
IntToChars(n) == IF n < 0 THEN <<"-">> \o NatToChars(-n) ELSE NatToChars(n)

RECURSIVE LStrip(_)
LStrip(s) == IF s # <<>> /\ Head(s) \in Whitespace THEN LStrip(Tail(s)) ELSE s

RECURSIVE RStrip(_)
RStrip(s) ==
    IF s # <<>> /\ s[Len(s)] \in Whitespace THEN RStrip(SubSeq(s, 1, Len(s) - 1)) ELSE s

\* str.strip()
Strip(s) == RStrip(LStrip(s))

\* The digits of an int literal: digit groups separated by single underscores.
RECURSIVE DigitsValue(_, _, _)
DigitsValue(s, acc, prevDigit) ==
    IF s = <<>> THEN [ok |-> prevDigit, n |-> acc]
    ELSE IF IsDigit(Head(s)) THEN DigitsValue(Tail(s), (acc * 10) + DigitValue(Head(s)), TRUE)
    ELSE IF Head(s) = "_" /\ prevDigit /\ Len(s) > 1 THEN DigitsValue(Tail(s), acc, FALSE)
    ELSE [ok |-> FALSE, n |-> 0]

\* int(s) for a str s: surrounding whitespace, an optional sign, decimal digits;
\* ok = FALSE is Python's ValueError.
Signed(mag, negative) ==
    IF ~mag.ok THEN [ok |-> FALSE, n |-> 0]
    ELSE [ok |-> TRUE, n |-> IF negative THEN -mag.n ELSE mag.n]

ParseStripped(body) ==
    IF body # <<>> /\ Head(body) \in {"+", "-"}
    THEN Signed(DigitsValue(Tail(body), 0, FALSE), Head(body) = "-")
    ELSE Signed(DigitsValue(body, 0, FALSE), FALSE)

ParseInt(s) == ParseStripped(Strip(s))

\* The value of the try block, or the default of the except clause.
IntOrDefault(parsed, default) == IF parsed.ok THEN parsed.n ELSE default

\* The least and the greatest member of a set of positive numbers; 0 when empty.
Least(S) == IF S = {} THEN 0 ELSE CHOOSE i \in S : \A j \in S : i <= j
Greatest(S) == IF S = {} THEN 0 ELSE CHOOSE i \in S : \A j \in S : j <= i

(***************************************************************************)
(* JSON values as json.loads returns them. t is the Python type; n the     *)
(* value of an int or bool and the truncation int(x) of a finite float;    *)
(* k tells a finite float from nan and inf; s is the text of a str.        *)
(* An absent key reads as None through dict.get.                           *)
(***************************************************************************)
JInt(n) == [t |-> "int", n |-> n, k |-> "", s |-> <<>>]
JStr(s) == [t |-> "str", n |-> 0, k |-> "", s |-> s]
JBool(b) == [t |-> "bool", n |-> IF b THEN 1 ELSE 0, k |-> "", s |-> <<>>]
JFloat(k, n) == [t |-> "float", n |-> n, k |-> k, s |-> <<>>]
JNone == [t |-> "NoneType", n |-> 0, k |-> "", s |-> <<>>]
JList == [t |-> "list", n |-> 0, k |-> "", s |-> <<>>]
JDict == [t |-> "dict", n |-> 0, k |-> "", s |-> <<>>]

\* _as_int: int(value), -1 on TypeError or ValueError; exc names an exception
\* the except clause does not catch.
_as_int(value) ==
    CASE value.t \in {"int", "bool"} -> [exc |-> "", v |-> value.n]
      [] value.t = "float" /\ value.k = "finite" -> [exc |-> "", v |-> value.n]
      [] value.t = "float" /\ value.k = "nan" -> [exc |-> "", v |-> -1]
      [] value.t = "float" /\ value.k = "inf" -> [exc |-> "OverflowError", v |-> -1]
      [] value.t = "str" ->
            [exc |-> "", v |-> IntOrDefault(ParseInt(value.s), -1)]
      [] OTHER -> [exc |-> "", v |-> -1]

_as_str(value) == IF value.t = "str" THEN value.s ELSE <<>>

(***************************************************************************)
(* Program text                                                            *)
(***************************************************************************)
\* The characters of the program's string literals and of the texts of the
\* examples, by the literal.
TextTable ==
    ("run_end" :> <<"r", "u", "n", "_", "e", "n", "d">>)
    @@ ("input" :> <<"i", "n", "p", "u", "t">>)
    @@ ("resize" :> <<"r", "e", "s", "i", "z", "e">>)
    @@ ("frame" :> <<"f", "r", "a", "m", "e">>)
    @@ ("status" :> <<"s", "t", "a", "t", "u", "s">>)
    @@ ("outcome" :> <<"o", "u", "t", "c", "o", "m", "e">>)
    @@ ("frames" :> <<"f", "r", "a", "m", "e", "s">>)
    @@ ("*" :> <<"*">>)
    @@ ("run_end_mismatch" :>
          <<"r", "u", "n", "_", "e", "n", "d", "_",
              "m", "i", "s", "m", "a", "t", "c", "h">>)
    @@ ("run_end." :> <<"r", "u", "n", "_", "e", "n", "d", ".">>)
    @@ ("resize_inputs_length" :>
          <<"r", "e", "s", "i", "z", "e", "_", "i", "n", "p",
              "u", "t", "s", "_", "l", "e", "n", "g", "t", "h">>)
    @@ ("resize_inputs.length" :>
          <<"r", "e", "s", "i", "z", "e", "_", "i", "n", "p",
              "u", "t", "s", ".", "l", "e", "n", "g", "t", "h">>)
    @@ ("resize_input_geometry" :>
          <<"r", "e", "s", "i", "z", "e", "_", "i", "n", "p",
              "u", "t", "_", "g", "e", "o", "m", "e", "t", "r", "y">>)
    @@ ("resize_inputs[" :>
          <<"r", "e", "s", "i", "z", "e", "_",
              "i", "n", "p", "u", "t", "s", "[">>)
    @@ ("].cols_rows" :> <<"]", ".", "c", "o", "l", "s", "_", "r", "o", "w", "s">>)
    @@ ("resize_input_hash_key" :>
          <<"r", "e", "s", "i", "z", "e", "_", "i", "n", "p",
              "u", "t", "_", "h", "a", "s", "h", "_", "k", "e", "y">>)
    @@ ("].hash_key" :> <<"]", ".", "h", "a", "s", "h", "_", "k", "e", "y">>)
    @@ ("geometry_sequence_length" :>
          <<"g", "e", "o", "m", "e", "t", "r", "y", "_", "s", "e", "q",
              "u", "e", "n", "c", "e", "_", "l", "e", "n", "g", "t", "h">>)
    @@ ("geometry_sequence.length" :>
          <<"g", "e", "o", "m", "e", "t", "r", "y", "_", "s", "e", "q",
              "u", "e", "n", "c", "e", ".", "l", "e", "n", "g", "t", "h">>)
    @@ ("geometry_sequence_value" :>
          <<"g", "e", "o", "m", "e", "t", "r", "y", "_", "s", "e",
              "q", "u", "e", "n", "c", "e", "_", "v", "a", "l", "u", "e">>)
    @@ ("geometry_sequence[" :>
          <<"g", "e", "o", "m", "e", "t", "r", "y", "_",
              "s", "e", "q", "u", "e", "n", "c", "e", "[">>)
    @@ ("]" :> <<"]">>)
    @@ ("frame_count" :> <<"f", "r", "a", "m", "e", "_", "c", "o", "u", "n", "t">>)
    @@ ("frames.length" :>
          <<"f", "r", "a", "m", "e", "s",
              ".", "l", "e", "n", "g", "t", "h">>)
    @@ ("final_frame_geometry" :>
          <<"f", "i", "n", "a", "l", "_", "f", "r", "a", "m",
              "e", "_", "g", "e", "o", "m", "e", "t", "r", "y">>)
    @@ ("frames[-1].cols_rows" :>
          <<"f", "r", "a", "m", "e", "s", "[", "-", "1", "]",
              ".", "c", "o", "l", "s", "_", "r", "o", "w", "s">>)
    @@ ("final_frame_hash_key" :>
          <<"f", "i", "n", "a", "l", "_", "f", "r", "a", "m",
              "e", "_", "h", "a", "s", "h", "_", "k", "e", "y">>)
    @@ ("frames[-1].hash_key" :>
          <<"f", "r", "a", "m", "e", "s", "[", "-", "1",
              "]", ".", "h", "a", "s", "h", "_", "k", "e", "y">>)
    @@ ("80x24" :> <<"8", "0", "x", "2", "4">>)
    @@ ("100x30" :> <<"1", "0", "0", "x", "3", "0">>)
    @@ ("firefox99" :> <<"f", "i", "r", "e", "f", "o", "x", "9", "9">>)
    @@ ("chrome12" :> <<"c", "h", "r", "o", "m", "e", "1", "2">>)
    @@ ("firefoxish*" :> <<"f", "i", "r", "e", "f", "o", "x", "i", "s", "h", "*">>)
    @@ ("chromish*" :> <<"c", "h", "r", "o", "m", "i", "s", "h", "*">>)
    @@ ("firefox*" :> <<"f", "i", "r", "e", "f", "o", "x", "*">>)
    @@ ("chrom*" :> <<"c", "h", "r", "o", "m", "*">>)

\* Text("80x24") is <<"8", "0", "x", "2", "4">>.
Text(s) == TextTable[s]

(***************************************************************************)
(* extract_signature                                                       *)
(***************************************************************************)
\* A JSON object of a trace line, by the keys the program reads.
Event(type, input_type, cols, rows, hash_key) ==
    [type |-> type, input_type |-> input_type, cols |-> cols, rows |-> rows,
     hash_key |-> hash_key, frame_hash |-> JNone, status |-> JNone, outcome |-> JNone,
     frames |-> JNone, checksum_chain |-> JNone, output_sha256 |-> JNone]

\* event.get("type") == name
TypeIs(event, name) == event.type.t = "str" /\ event.type.s = name

IsResizeInput(event) ==
    /\ TypeIs(event, Text("input"))
    /\ event.input_type.t = "str"
    /\ event.input_type.s = Text("resize")

IsFrame(event) == ~IsResizeInput(event) /\ TypeIs(event, Text("frame"))

\* A mutant of RunEndIndex: the first event of type run_end.
RunEndIndexFirst(events) == Least({i \in DOMAIN events : TypeIs(events[i], Text("run_end"))})

\* The run_end the first loop leaves: the last event of type run_end (0: None).
RunEndIndex(events) == Greatest({i \in DOMAIN events : TypeIs(events[i], Text("run_end"))})

ResizeEntry(event) ==
    [cols |-> _as_int(event.cols).v, rows |-> _as_int(event.rows).v,
     hash_key |-> _as_str(event.hash_key)]

FrameEntry(event) ==
    [cols |-> _as_int(event.cols).v, rows |-> _as_int(event.rows).v,
     frame_hash |-> _as_str(event.frame_hash), hash_key |-> _as_str(event.hash_key)]

RECURSIVE SelectResize(_)
SelectResize(events) ==
    IF events = <<>> THEN <<>>
    ELSE (IF IsResizeInput(Head(events)) THEN <<ResizeEntry(Head(events))>> ELSE <<>>)
         \o SelectResize(Tail(events))

RECURSIVE SelectFrames(_)
SelectFrames(events) ==
    IF events = <<>> THEN <<>>
    ELSE (IF IsFrame(Head(events)) THEN <<FrameEntry(Head(events))>> ELSE <<>>)
         \o SelectFrames(Tail(events))

\* f"{frame['cols']}x{frame['rows']}"
Geom(cols, rows) == IntToChars(cols) \o <<"x">> \o IntToChars(rows)

\* A mutant of EmitGeometry: full deduplication instead of consecutive-repeat collapse.
EmitGeometryDedup(geometry_sequence, geom) ==
    IF \E i \in DOMAIN geometry_sequence : geometry_sequence[i] = geom
    THEN geometry_sequence
    ELSE Append(geometry_sequence, geom)

\* One turn of the geometry loop.
EmitGeometry(geometry_sequence, geom) ==
    IF geometry_sequence = <<>> \/ geometry_sequence[Len(geometry_sequence)] # geom
    THEN Append(geometry_sequence, geom)
    ELSE geometry_sequence

RECURSIVE GeometryLoop(_, _)
GeometryLoop(frames, geometry_sequence) ==
    IF frames = <<>> THEN geometry_sequence
    ELSE GeometryLoop(Tail(frames),
                      EmitGeometry(geometry_sequence, Geom(Head(frames).cols, Head(frames).rows)))

\* An exception _as_int lets through while the events are projected.
CoercionRaises(events, run_end) ==
    \/ \E i \in DOMAIN events :
          /\ IsResizeInput(events[i]) \/ IsFrame(events[i])
          /\ _as_int(events[i].cols).exc # "" \/ _as_int(events[i].rows).exc # ""
    \/ _as_int(run_end.frames).exc # ""

EmptySignature ==
    [run_end |-> [status |-> <<>>, outcome |-> <<>>, frames |-> -1,
                  checksum_chain |-> <<>>, output_sha256 |-> <<>>],
     resize_inputs |-> <<>>, frames |-> <<>>, geometry_sequence |-> <<>>]

SignatureOf(run_end, resize_inputs, frames) ==
    [run_end |-> [status |-> _as_str(run_end.status),
                  outcome |-> _as_str(run_end.outcome),
                  frames |-> _as_int(run_end.frames).v,
                  checksum_chain |-> _as_str(run_end.checksum_chain),
                  output_sha256 |-> _as_str(run_end.output_sha256)],
     resize_inputs |-> resize_inputs,
     frames |-> frames,
     geometry_sequence |-> GeometryLoop(frames, <<>>)]

\* The function past the run_end test.
ExtractWith(events, run_end) ==
    IF CoercionRaises(events, run_end)
    THEN [exc |-> "OverflowError", msg |-> "cannot convert float infinity to integer",
          sig |-> EmptySignature]
    ELSE [exc |-> "", msg |-> "",
          sig |-> SignatureOf(run_end, SelectResize(events), SelectFrames(events))]

\* exc = "" with the signature returned, or the exception raised.
extract_signature(events) ==
    IF RunEndIndex(events) = 0
    THEN [exc |-> "ValueError", msg |-> "missing run_end event", sig |-> EmptySignature]
    ELSE ExtractWith(events, events[RunEndIndex(events)])

(***************************************************************************)
(* compare_signatures                                                      *)
(***************************************************************************)
\* _append_diff's record. expected and actual hold an int (JInt) or a str (JStr).
Diff(class_name, path, expected, actual, details) ==
    [class |-> class_name, path |-> path, expected |-> expected, actual |-> actual,
     details |-> details]

RunEndField(field, expected, actual) ==
    IF expected # actual
    THEN <<Diff(Text("run_end_mismatch"), Text("run_end.") \o field, expected, actual,
                "run_end field diverged")>>
    ELSE <<>>

RunEndDiffs(baseline_run_end, target_run_end) ==
    RunEndField(Text("status"), JStr(baseline_run_end.status), JStr(target_run_end.status))
    \o RunEndField(Text("outcome"), JStr(baseline_run_end.outcome), JStr(target_run_end.outcome))
    \o RunEndField(Text("frames"), JInt(baseline_run_end.frames), JInt(target_run_end.frames))

Min(a, b) == IF a <= b THEN a ELSE b

\* A mutant of ResizeIndexDiffs: hash_key is compared only where the geometry agrees.
ResizeIndexDiffsElif(left, right, idx) ==
    IF <<left.cols, left.rows>> # <<right.cols, right.rows>>
    THEN <<Diff(Text("resize_input_geometry"),
                Text("resize_inputs[") \o IntToChars(idx) \o Text("].cols_rows"),
                JStr(Geom(left.cols, left.rows)), JStr(Geom(right.cols, right.rows)),
                "resize geometry diverged")>>
    ELSE IF left.hash_key # right.hash_key
    THEN <<Diff(Text("resize_input_hash_key"),
                Text("resize_inputs[") \o IntToChars(idx) \o Text("].hash_key"),
                JStr(left.hash_key), JStr(right.hash_key),
                "resize hash_key diverged")>>
    ELSE <<>>

\* The two checks of one index of the resize loop; idx counts from 0.
ResizeIndexDiffs(left, right, idx) ==
    (IF <<left.cols, left.rows>> # <<right.cols, right.rows>>
     THEN <<Diff(Text("resize_input_geometry"),
                 Text("resize_inputs[") \o IntToChars(idx) \o Text("].cols_rows"),
                 JStr(Geom(left.cols, left.rows)), JStr(Geom(right.cols, right.rows)),
                 "resize geometry diverged")>>
     ELSE <<>>)
    \o (IF left.hash_key # right.hash_key
        THEN <<Diff(Text("resize_input_hash_key"),
                    Text("resize_inputs[") \o IntToChars(idx) \o Text("].hash_key"),
                    JStr(left.hash_key), JStr(right.hash_key),
                    "resize hash_key diverged")>>
        ELSE <<>>)

RECURSIVE ResizeLoop(_, _, _)
ResizeLoop(baseline_resize, target_resize, idx) ==
    IF idx >= Min(Len(baseline_resize), Len(target_resize)) THEN <<>>
    ELSE ResizeIndexDiffs(baseline_resize[idx + 1], target_resize[idx + 1], idx)
         \o ResizeLoop(baseline_resize, target_resize, idx + 1)

\* A mutant of ResizeDiffs: the two lengths the other way round.
ResizeDiffsTargetFirst(baseline_resize, target_resize) ==
    (IF Len(baseline_resize) # Len(target_resize)
     THEN <<Diff(Text("resize_inputs_length"), Text("resize_inputs.length"),
                 JInt(Len(target_resize)), JInt(Len(baseline_resize)),
                 "resize input event count diverged")>>
     ELSE <<>>)
    \o ResizeLoop(baseline_resize, target_resize, 0)

ResizeDiffs(baseline_resize, target_resize) ==
    (IF Len(baseline_resize) # Len(target_resize)
     THEN <<Diff(Text("resize_inputs_length"), Text("resize_inputs.length"),
                 JInt(Len(baseline_resize)), JInt(Len(target_resize)),
                 "resize input event count diverged")>>
     ELSE <<>>)
    \o ResizeLoop(baseline_resize, target_resize, 0)

RECURSIVE GeometryValueLoop(_, _, _)
GeometryValueLoop(baseline_geom, target_geom, idx) ==
    IF idx >= Min(Len(baseline_geom), Len(target_geom)) THEN <<>>
    ELSE (IF baseline_geom[idx + 1] # target_geom[idx + 1]
          THEN <<Diff(Text("geometry_sequence_value"),
                      Text("geometry_sequence[") \o IntToChars(idx) \o Text("]"),
                      JStr(baseline_geom[idx + 1]), JStr(target_geom[idx + 1]),
                      "unique frame geometry diverged")>>
          ELSE <<>>)
         \o GeometryValueLoop(baseline_geom, target_geom, idx + 1)

GeometryDiffs(baseline_geom, target_geom) ==
    (IF Len(baseline_geom) # Len(target_geom)
     THEN <<Diff(Text("geometry_sequence_length"), Text("geometry_sequence.length"),
                 JInt(Len(baseline_geom)), JInt(Len(target_geom)),
                 "unique frame geometry sequence length diverged")>>
     ELSE <<>>)
    \o GeometryValueLoop(baseline_geom, target_geom, 0)

FrameCountDiffs(baseline_frames, target_frames) ==
    IF Len(baseline_frames) # Len(target_frames)
    THEN <<Diff(Text("frame_count"), Text("frames.length"),
                JInt(Len(baseline_frames)), JInt(Len(target_frames)),
                "frame event count diverged")>>
    ELSE <<>>

\* A mutant of LastFrameDiffs: frame_hash is compared along with hash_key.
LastFrameDiffsFrameHash(baseline_last, target_last) ==
    (IF <<baseline_last.cols, baseline_last.rows>> # <<target_last.cols, target_last.rows>>
     THEN <<Diff(Text("final_frame_geometry"), Text("frames[-1].cols_rows"),
                 JStr(Geom(baseline_last.cols, baseline_last.rows)),
                 JStr(Geom(target_last.cols, target_last.rows)),
                 "final frame geometry diverged")>>
     ELSE <<>>)
    \o (IF <<baseline_last.hash_key, baseline_last.frame_hash>>
            # <<target_last.hash_key, target_last.frame_hash>>
        THEN <<Diff(Text("final_frame_hash_key"), Text("frames[-1].hash_key"),
                    JStr(baseline_last.hash_key), JStr(target_last.hash_key),
                    "final frame hash_key diverged")>>
        ELSE <<>>)

\* The final-frame check on the frames it compares.
LastFrameDiffs(baseline_last, target_last) ==
    (IF <<baseline_last.cols, baseline_last.rows>> # <<target_last.cols, target_last.rows>>
     THEN <<Diff(Text("final_frame_geometry"), Text("frames[-1].cols_rows"),
                 JStr(Geom(baseline_last.cols, baseline_last.rows)),
                 JStr(Geom(target_last.cols, target_last.rows)),
                 "final frame geometry diverged")>>
     ELSE <<>>)
    \o (IF baseline_last.hash_key # target_last.hash_key
        THEN <<Diff(Text("final_frame_hash_key"), Text("frames[-1].hash_key"),
                    JStr(baseline_last.hash_key), JStr(target_last.hash_key),
                    "final frame hash_key diverged")>>
        ELSE <<>>)

\* A mutant of FinalFrameDiffs: the baseline's last frame against the target's first.
FinalFrameDiffsFirst(baseline_frames, target_frames) ==
    IF baseline_frames # <<>> /\ target_frames # <<>>
    THEN LastFrameDiffs(baseline_frames[Len(baseline_frames)], target_frames[1])
    ELSE <<>>

FinalFrameDiffs(baseline_frames, target_frames) ==
    IF baseline_frames # <<>> /\ target_frames # <<>>
    THEN LastFrameDiffs(baseline_frames[Len(baseline_frames)], target_frames[Len(target_frames)])
    ELSE <<>>

\* A mutant of compare_signatures: the frame checks ahead of the resize checks.
compare_signatures_frames_first(baseline_sig, target_sig) ==
    RunEndDiffs(baseline_sig.run_end, target_sig.run_end)
    \o FrameCountDiffs(baseline_sig.frames, target_sig.frames)
    \o FinalFrameDiffs(baseline_sig.frames, target_sig.frames)
    \o ResizeDiffs(baseline_sig.resize_inputs, target_sig.resize_inputs)
    \o GeometryDiffs(baseline_sig.geometry_sequence, target_sig.geometry_sequence)

compare_signatures(baseline_sig, target_sig) ==
    RunEndDiffs(baseline_sig.run_end, target_sig.run_end)
    \o ResizeDiffs(baseline_sig.resize_inputs, target_sig.resize_inputs)
    \o GeometryDiffs(baseline_sig.geometry_sequence, target_sig.geometry_sequence)
    \o FrameCountDiffs(baseline_sig.frames, target_sig.frames)
    \o FinalFrameDiffs(baseline_sig.frames, target_sig.frames)

(***************************************************************************)
(* fnmatch.fnmatchcase: whole-string, case-sensitive shell-style matching  *)
(* with *, ? and [seq] / [!seq] (ranges included), as fnmatch.translate    *)
(* builds it.                                                              *)
(***************************************************************************)
Ascii ==
    <<" ", "!", "\"", "#", "$", "%", "&", "'", "(", ")", "*", "+", ",", "-", ".", "/",
      "0", "1", "2", "3", "4", "5", "6", "7", "8", "9", ":", ";", "<", "=", ">", "?",
      "@", "A", "B", "C", "D", "E", "F", "G", "H", "I", "J", "K", "L", "M", "N", "O",
      "P", "Q", "R", "S", "T", "U", "V", "W", "X", "Y", "Z", "[", "\\", "]", "^", "_",
      "a", "b", "c", "d", "e", "f", "g", "h", "i", "j", "k", "l", "m", "n", "o",
      "p", "q", "r", "s", "t", "u", "v", "w", "x", "y", "z", "{", "|", "}", "~">>

\* The code point order of the printable characters (the grave accent, which
\* a TLA+ string cannot hold, left out).
Ord(c) == CHOOSE i \in DOMAIN Ascii : Ascii[i] = c

\* str.find(c, k, j): the first position in k..j-1 holding c, or 0.
Find(s, c, k, j) == Least({p \in k..(j - 1) : p <= Len(s) /\ s[p] = c})

\* The chunks of a bracket expression that holds a hyphen: stuff is cut at each
\* hyphen found from position k on, the search resuming three places further;
\* when nothing follows the last hyphen found, it goes to the chunk before it.
RECURSIVE Chunks(_, _, _, _)
RECURSIVE ChunkAt(_, _, _, _)
Chunks(stuff, i, k, chunks) == ChunkAt(stuff, i, Find(stuff, "-", k, Len(stuff) + 1), chunks)

\* h is the hyphen found, 0 when there is none.
ChunkAt(stuff, i, h, chunks) ==
    IF h # 0 THEN Chunks(stuff, h + 1, h + 3, Append(chunks, SubSeq(stuff, i, h - 1)))
    ELSE IF i <= Len(stuff) THEN Append(chunks, SubSeq(stuff, i, Len(stuff)))
    ELSE [chunks EXCEPT ![Len(chunks)] = Append(@, "-")]

\* Remove empty ranges, from the last chunk boundary to the first.
RECURSIVE MergeEmptyRanges(_, _)
MergeEmptyRanges(chunks, k) ==
    IF k < 2 THEN chunks
    ELSE IF Ord(chunks[k - 1][Len(chunks[k - 1])]) > Ord(chunks[k][1])
    THEN MergeEmptyRanges(
             [n \in 1..(Len(chunks) - 1) |->
                 IF n < k - 1 THEN chunks[n]
                 ELSE IF n = k - 1
                 THEN SubSeq(chunks[k - 1], 1, Len(chunks[k - 1]) - 1) \o Tail(chunks[k])
                 ELSE chunks[n + 1]],
             k - 1)
    ELSE MergeEmptyRanges(chunks, k - 1)

RECURSIVE Concat(_)
Concat(chunks) == IF chunks = <<>> THEN <<>> ELSE Head(chunks) \o Concat(Tail(chunks))

Matcher(k, c, neg, lits, ranges) == [k |-> k, c |-> c, neg |-> neg, lits |-> lits, ranges |-> ranges]

\* The character class of the chunks; all is their concatenation.
ClassOf(chunks, all) ==
    IF all = <<>> THEN Matcher("never", "", FALSE, {}, {})
    ELSE IF all = <<"!">> THEN Matcher("any", "", FALSE, {}, {})
    ELSE Matcher("set", "", all[1] = "!",
                 {all[p] : p \in (IF all[1] = "!" THEN 2 ELSE 1)..Len(all)},
                 {<<chunks[n][Len(chunks[n])], chunks[n + 1][1]>> : n \in 1..(Len(chunks) - 1)})

ClassOfChunks(chunks) == ClassOf(chunks, Concat(chunks))

MergeAll(chunks) == MergeEmptyRanges(chunks, Len(chunks))

\* The matcher of a bracket expression [stuff].
BracketMatcher(stuff) ==
    IF \E p \in DOMAIN stuff : stuff[p] = "-"
    THEN ClassOfChunks(MergeAll(Chunks(stuff, 1, IF stuff[1] = "!" THEN 3 ELSE 2, <<>>)))
    ELSE ClassOfChunks(<<stuff>>)

\* The first position from j on that holds "]", or Len(pat) + 1.
RECURSIVE ClosePos(_, _)
ClosePos(pat, j) == IF j <= Len(pat) /\ pat[j] # "]" THEN ClosePos(pat, j + 1) ELSE j

\* j past a "!" and then past a "]" that open the bracket expression.
SkipBang(pat, j) == IF j <= Len(pat) /\ pat[j] = "!" THEN j + 1 ELSE j
SkipClose(pat, j) == IF j <= Len(pat) /\ pat[j] = "]" THEN j + 1 ELSE j

\* fnmatch.translate from position i on, as a sequence of matchers.
RECURSIVE Translate(_, _)
RECURSIVE TranslateBracket(_, _, _)
Translate(pat, i) ==
    IF i > Len(pat) THEN <<>>
    ELSE CASE pat[i] = "*" -> <<Matcher("star", "", FALSE, {}, {})>> \o Translate(pat, i + 1)
           [] pat[i] = "?" -> <<Matcher("any", "", FALSE, {}, {})>> \o Translate(pat, i + 1)
           [] pat[i] = "[" ->
                TranslateBracket(pat, i, ClosePos(pat, SkipClose(pat, SkipBang(pat, i + 1))))
           [] OTHER -> <<Matcher("lit", pat[i], FALSE, {}, {})>> \o Translate(pat, i + 1)

\* The "[" at position i, j the position of the "]" that closes it (past the
\* pattern's end when none does, and the "[" is literal).
TranslateBracket(pat, i, j) ==
    IF j > Len(pat)
    THEN <<Matcher("lit", "[", FALSE, {}, {})>> \o Translate(pat, i + 1)
    ELSE <<BracketMatcher(SubSeq(pat, i + 1, j - 1))>> \o Translate(pat, j + 1)

\* One matcher against one character.
MatchesChar(m, c) ==
    CASE m.k = "any" -> TRUE
      [] m.k = "lit" -> m.c = c
      [] m.k = "set" ->
            m.neg # (\/ c \in m.lits
                     \/ \E r \in m.ranges : Ord(r[1]) <= Ord(c) /\ Ord(c) <= Ord(r[2]))
      [] OTHER -> FALSE

RECURSIVE MatchFrom(_, _, _, _)
MatchFrom(name, i, ms, j) ==
    IF j > Len(ms) THEN i > Len(name)
    ELSE IF ms[j].k = "star"
         THEN \E n \in i..(Len(name) + 1) : MatchFrom(name, n, ms, j + 1)
         ELSE /\ i <= Len(name)
              /\ MatchesChar(ms[j], name[i])
              /\ MatchFrom(name, i + 1, ms, j + 1)

\* A mutant of fnmatchcase: the pattern is compared as a literal string.
fnmatchcase_literal(name, pat) == name = pat

fnmatchcase(name, pat) == MatchFrom(name, 1, Translate(pat, 1), 1)

(***************************************************************************)
(* Known-divergence rules: parse_known_divergences, _match_pair,           *)
(* classify_diffs                                                          *)
(***************************************************************************)
KnownDivergence(class_pattern, left_pattern, right_pattern, path_pattern, rationale) ==
    [class_pattern |-> class_pattern, left_browser_pattern |-> left_pattern,
     right_browser_pattern |-> right_pattern, path_pattern |-> path_pattern,
     rationale |-> rationale]

\* str.split(sep)
RECURSIVE Split(_, _)
RECURSIVE SplitAt(_, _, _)
Split(s, sep) == SplitAt(s, sep, Find(s, sep, 1, Len(s) + 1))

SplitAt(s, sep, p) ==
    IF p = 0 THEN <<s>>
    ELSE <<SubSeq(s, 1, p - 1)>> \o Split(SubSeq(s, p + 1, Len(s)), sep)

\* cell.strip() or "*"
PatternCell(cell) == IF Strip(cell) = <<>> THEN Text("*") ELSE Strip(cell)

\* The loop over the rule file's lines from line idx on (1-based); rules holds
\* the rules of the lines before. exc = "" with the rules, or the ValueError of
\* the first short row with its line number.
RECURSIVE RuleLines(_, _, _)
RECURSIVE RuleLine(_, _, _, _)
RECURSIVE RuleRow(_, _, _, _)
RuleLines(lines, idx, rules) ==
    IF idx > Len(lines) THEN [exc |-> "", line |-> 0, rules |-> rules]
    ELSE RuleLine(lines, idx, rules, Strip(lines[idx]))

\* raw = line.strip()
RuleLine(lines, idx, rules, raw) ==
    IF raw = <<>> \/ Head(raw) = "#" THEN RuleLines(lines, idx + 1, rules)
    ELSE RuleRow(lines, idx, rules, Split(raw, "\t"))

\* parts = raw.split("\t")
RuleRow(lines, idx, rules, parts) ==
    IF Len(parts) < 5 THEN [exc |-> "ValueError", line |-> idx, rules |-> <<>>]
    ELSE RuleLines(lines, idx + 1,
                   Append(rules,
                          KnownDivergence(PatternCell(parts[1]), PatternCell(parts[2]),
                                          PatternCell(parts[3]), PatternCell(parts[4]),
                                          Strip(parts[5]))))

\* A mutant of _match_pair: both orientations required.
_match_pair_both(rule, left, right) ==
    /\ fnmatchcase(left, rule.left_browser_pattern)
    /\ fnmatchcase(right, rule.right_browser_pattern)
    /\ fnmatchcase(left, rule.right_browser_pattern)
    /\ fnmatchcase(right, rule.left_browser_pattern)

\* A mutant of _match_pair: the forward orientation only.
_match_pair_forward(rule, left, right) ==
    /\ fnmatchcase(left, rule.left_browser_pattern)
    /\ fnmatchcase(right, rule.right_browser_pattern)

_match_pair(rule, left, right) ==
    LET forward == /\ fnmatchcase(left, rule.left_browser_pattern)
                   /\ fnmatchcase(right, rule.right_browser_pattern)
        reverse == /\ fnmatchcase(left, rule.right_browser_pattern)
                   /\ fnmatchcase(right, rule.left_browser_pattern)
    IN  forward \/ reverse

\* The three tests of the rule loop's body.
RuleMatches(rule, diff, baseline, target) ==
    /\ fnmatchcase(diff.class, rule.class_pattern)
    /\ fnmatchcase(diff.path, rule.path_pattern)
    /\ _match_pair(rule, baseline, target)

\* A mutant of MatchedRule: the last matching rule instead of the first.
MatchedRuleLast(diff, baseline, target, rules) ==
    Greatest({i \in DOMAIN rules : RuleMatches(rules[i], diff, baseline, target)})

\* matched_rule when the rule loop ends, as its index in rules; 0 is None.
MatchedRule(diff, baseline, target, rules) ==
    Least({i \in DOMAIN rules : RuleMatches(rules[i], diff, baseline, target)})

DiffWithContext(diff, baseline, target) ==
    [class |-> diff.class, path |-> diff.path, expected |-> diff.expected,
     actual |-> diff.actual, details |-> diff.details,
     baseline_browser |-> baseline, target_browser |-> target]

KnownDiff(diff, baseline, target, rationale) ==
    [class |-> diff.class, path |-> diff.path, expected |-> diff.expected,
     actual |-> diff.actual, details |-> diff.details,
     baseline_browser |-> baseline, target_browser |-> target,
     known_rationale |-> rationale]

\* A mutant of ClassifyOne: a known diff goes behind the known diffs that follow it.
ClassifyOneKnownLast(diff, m, rest, baseline, target, rules) ==
    IF m = 0
    THEN [known |-> rest.known,
          unknown |-> <<DiffWithContext(diff, baseline, target)>> \o rest.unknown]
    ELSE [known |-> rest.known \o <<KnownDiff(diff, baseline, target, rules[m].rationale)>>,
          unknown |-> rest.unknown]

\* One turn of the diff loop: m is the matched rule's index (0: None), rest
\* the lists of the diffs that follow.
ClassifyOne(diff, m, rest, baseline, target, rules) ==
    IF m = 0
    THEN [known |-> rest.known,
          unknown |-> <<DiffWithContext(diff, baseline, target)>> \o rest.unknown]
    ELSE [known |-> <<KnownDiff(diff, baseline, target, rules[m].rationale)>> \o rest.known,
          unknown |-> rest.unknown]

RECURSIVE classify_diffs(_, _, _, _)
classify_diffs(diffs, baseline, target, rules) ==
    IF diffs = <<>> THEN [known |-> <<>>, unknown |-> <<>>]
    ELSE ClassifyOne(Head(diffs), MatchedRule(Head(diffs), baseline, target, rules),
                     classify_diffs(Tail(diffs), baseline, target, rules),
                     baseline, target, rules)

(***************************************************************************)
(* Events of the traces                                                    *)
(***************************************************************************)
FrameEvent(cols, rows) == Event(JStr(Text("frame")), JNone, cols, rows, JStr(<<"k">>))

RunEndEvent ==
    [Event(JStr(Text("run_end")), JNone, JNone, JNone, JNone)
        EXCEPT !.status = JStr(<<"o", "k">>), !.outcome = JStr(<<"p", "a", "s", "s">>),
               !.frames = JInt(1)]

(***************************************************************************)
(* parse_trace_args, load_jsonl                                            *)
(***************************************************************************)
TraceInput(browser, path) == [browser |-> browser, path |-> path]

\* The loop over the raw --trace items; exc = "" with the traces, or the
\* ValueError of the first bad item.
RECURSIVE TraceItems(_, _)
TraceItems(raw_items, acc) ==
    IF raw_items = <<>> THEN [exc |-> "", msg |-> "", traces |-> acc]
    ELSE LET raw == Head(raw_items)
             eq == Find(raw, "=", 1, Len(raw) + 1)
             browser == Strip(SubSeq(raw, 1, eq - 1))
             path == Strip(SubSeq(raw, eq + 1, Len(raw)))
         IN  IF eq = 0
             THEN [exc |-> "ValueError", msg |-> "invalid --trace value", traces |-> <<>>]
             ELSE IF browser = <<>>
             THEN [exc |-> "ValueError", msg |-> "empty browser label in --trace", traces |-> <<>>]
             ELSE TraceItems(Tail(raw_items), Append(acc, TraceInput(browser, path)))

\* The two tests past the loop.
CheckTraces(parsed) ==
    IF parsed.exc # "" THEN parsed
    ELSE IF Len(parsed.traces) < 2
    THEN [exc |-> "ValueError", msg |-> "at least two --trace inputs are required",
          traces |-> <<>>]
    ELSE IF Cardinality({parsed.traces[i].browser : i \in DOMAIN parsed.traces})
            # Len(parsed.traces)
    THEN [exc |-> "ValueError",
          msg |-> "duplicate browser labels in --trace inputs are not allowed",
          traces |-> <<>>]
    ELSE parsed

parse_trace_args(raw_items) == CheckTraces(TraceItems(raw_items, <<>>))

\* A line of a trace file as json.loads sees it: blank (skipped), invalid
\* (not JSON), value (JSON, not an object) or object (with its event).
Line(kind, event) == [kind |-> kind, event |-> event]

\* The loop over a trace file's lines from line idx on (1-based).
RECURSIVE JsonLines(_, _, _)
JsonLines(lines, idx, events) ==
    IF idx > Len(lines) THEN [exc |-> "", msg |-> "", line |-> 0, events |-> events]
    ELSE CASE lines[idx].kind = "blank" -> JsonLines(lines, idx + 1, events)
           [] lines[idx].kind = "invalid" ->
                [exc |-> "ValueError", msg |-> "invalid JSONL entry", line |-> idx,
                 events |-> <<>>]
           [] lines[idx].kind = "value" ->
                [exc |-> "ValueError", msg |-> "expected JSON object per line", line |-> idx,
                 events |-> <<>>]
           [] OTHER -> JsonLines(lines, idx + 1, Append(events, lines[idx].event))

\* file is <<>> when the path does not exist, else <<lines>>.
\* if not events: raise
NonEmpty(loaded) ==
    IF loaded.exc = "" /\ loaded.events = <<>>
    THEN [exc |-> "ValueError", msg |-> "JSONL is empty", line |-> 0, events |-> <<>>]
    ELSE loaded

load_jsonl(file) ==
    IF file = <<>>
    THEN [exc |-> "FileNotFoundError", msg |-> "trace not found", line |-> 0, events |-> <<>>]
    ELSE NonEmpty(JsonLines(file[1], 1, <<>>))

\* parse_known_divergences on the --known file: <<>> is a missing file.
parse_known_divergences(given, file) ==
    IF ~given THEN [exc |-> "", line |-> 0, rules |-> <<>>]
    ELSE IF file = <<>> THEN [exc |-> "FileNotFoundError", line |-> 0, rules |-> <<>>]
    ELSE RuleLines(file[1], 1, <<>>)

(***************************************************************************)
(* The files of the run                                                    *)
(***************************************************************************)
H1 == <<"h", "1">>
H2 == <<"h", "2">>

ResizeEvent(cols, rows, hash_key) ==
    Event(JStr(Text("input")), JStr(Text("resize")), JInt(cols), JInt(rows), JStr(hash_key))

HashedFrame(cols, rows, hash_key) ==
    [Event(JStr(Text("frame")), JNone, JInt(cols), JInt(rows), JStr(hash_key))
        EXCEPT !.frame_hash = JStr(<<"f">>)]

OtherEvent == Event(JStr(<<"l", "o", "g">>), JNone, JNone, JNone, JNone)

Obj(event) == Line("object", event)
Blank == Line("blank", OtherEvent)
Invalid == Line("invalid", OtherEvent)

\* path -> <<lines>>; a path that is not listed does not exist.
TraceFile(path) ==
    CASE path = <<"a">> ->
            <<(<<Obj(ResizeEvent(80, 24, H1)), Obj(HashedFrame(80, 24, H1)), Obj(RunEndEvent)>>)>>
      [] path = <<"A">> ->
            <<(<<Obj(OtherEvent), Obj(ResizeEvent(80, 24, H1)), Blank,
                 Obj(HashedFrame(80, 24, H1)), Obj(RunEndEvent)>>)>>
      [] path = <<"b">> ->
            <<(<<Obj(ResizeEvent(80, 24, H1)), Obj(ResizeEvent(80, 24, H1)),
                 Obj(HashedFrame(80, 24, H1)), Obj(RunEndEvent)>>)>>
      [] path = <<"c">> ->
            <<(<<Obj(ResizeEvent(80, 24, H1)), Obj(HashedFrame(100, 30, H2)), Obj(RunEndEvent)>>)>>
      [] path = <<"n">> ->
            <<(<<Obj(ResizeEvent(80, 24, H1)), Obj(HashedFrame(80, 24, H1))>>)>>
      [] path = <<"x">> ->
            <<(<<Obj(ResizeEvent(80, 24, H1)), Invalid, Obj(RunEndEvent)>>)>>
      [] path = <<"v">> ->
            <<(<<Line("value", OtherEvent), Obj(RunEndEvent)>>)>>
      [] path = <<"e">> -> <<(<<Blank, Blank>>)>>
      [] OTHER -> <<>>

\* The rule files: K holds a comment, a blank line and two rules, R a short row.
RuleFile(path) ==
    CASE path = <<"K">> ->
            <<(<<(<<"#", " ", "r", "u", "l", "e", "s">>),
                 <<>>,
                 Text("resize_inputs_length")
                    \o <<"\t", "f", "*", "\t", "c", "*", "\t", "\t", "d", "u", "p">>,
                 <<"*", "\t", "*", "\t", "c", "r", "\t", "r", "e", "s", "i", "z", "e", "*",
                   "\t", "a", "n", "y">>
                >>)>>
      [] path = <<"R">> ->
            <<(<<(<<"#">>),
                 <<"*", "\t", "*", "\t", "*", "\t", "*", "\t", "o", "k">>,
                 <<"*", "\t", "*", "\t", "n", "o">>
                >>)>>
      [] OTHER -> <<>>

(***************************************************************************)
(* main()                                                                  *)
(***************************************************************************)
\* The index in traces of the trace with this label; 0 when there is none.
TraceIndex(ts, browser) ==
    IF \E i \in DOMAIN ts : ts[i].browser = browser
    THEN CHOOSE i \in DOMAIN ts : ts[i].browser = browser
    ELSE 0

\* The loading loop from trace i on: the first exception ends it.
RECURSIVE LoadLoop(_, _, _)
RECURSIVE Loaded(_, _, _, _)
RECURSIVE Extracted(_, _, _, _)
LoadLoop(ts, i, sigs) ==
    IF i > Len(ts) THEN [exc |-> "", msg |-> "", path |-> <<>>, line |-> 0, sigs |-> sigs]
    ELSE Loaded(ts, i, sigs, load_jsonl(TraceFile(ts[i].path)))

\* events = load_jsonl(path)
Loaded(ts, i, sigs, loaded) ==
    IF loaded.exc # ""
    THEN [exc |-> loaded.exc, msg |-> loaded.msg, path |-> ts[i].path,
          line |-> loaded.line, sigs |-> <<>>]
    ELSE Extracted(ts, i, sigs, extract_signature(loaded.events))

\* A mutant of Extracted: a failed extraction is taken for a signature.
ExtractedUnchecked(ts, i, sigs, extracted) ==
    LoadLoop(ts, i + 1, Append(sigs, extracted.sig))

\* signatures[browser] = extract_signature(events)
Extracted(ts, i, sigs, extracted) ==
    IF extracted.exc # ""
    THEN [exc |-> extracted.exc, msg |-> extracted.msg, path |-> <<>>, line |-> 0,
          sigs |-> <<>>]
    ELSE LoadLoop(ts, i + 1, Append(sigs, extracted.sig))

\* A mutant of IsBaseline: no trace is skipped.
IsBaselineNever(browser, baseline) == FALSE

\* browser == baseline_browser, the test that skips the baseline.
IsBaseline(browser, baseline) == browser = baseline

\* A mutant of ComparisonStatus: known diffs count too.
ComparisonStatusAnyDiff(known, unknown, mode) ==
    IF unknown = <<>> /\ known = <<>> THEN "pass"
    ELSE IF mode = "warn" THEN "warn" ELSE "fail"

ComparisonStatus(known, unknown, mode) ==
    IF unknown = <<>> THEN "pass"
    ELSE IF mode = "warn" THEN "warn" ELSE "fail"

\* A mutant of Comparison: total_diffs counts the unknown diffs only.
ComparisonUnknownTotal(baseline, target, raw_diffs, classified, mode) ==
    [baseline_browser |-> baseline, target_browser |-> target,
     total_diffs |-> Len(classified.unknown), known_diffs |-> classified.known,
     unknown_diffs |-> classified.unknown,
     status |-> ComparisonStatus(classified.known, classified.unknown, mode)]

\* The entry that comparisons.append adds.
Comparison(baseline, target, raw_diffs, classified, mode) ==
    [baseline_browser |-> baseline, target_browser |-> target,
     total_diffs |-> Len(raw_diffs), known_diffs |-> classified.known,
     unknown_diffs |-> classified.unknown,
     status |-> ComparisonStatus(classified.known, classified.unknown, mode)]

\* known, unknown = classify_diffs(raw_diffs, ...) and the entry made of them.
Classified(baseline, target, raw_diffs, rules, mode) ==
    Comparison(baseline, target, raw_diffs,
               classify_diffs(raw_diffs, baseline, target, rules), mode)

\* The comparison loop from trace i on.
RECURSIVE CompareLoop(_, _, _, _, _, _)
CompareLoop(ts, sigs, baseline, rules, mode, i) ==
    IF i > Len(ts) THEN <<>>
    ELSE IF IsBaseline(ts[i].browser, baseline)
    THEN CompareLoop(ts, sigs, baseline, rules, mode, i + 1)
    ELSE <<Classified(baseline, ts[i].browser,
                      compare_signatures(sigs[TraceIndex(ts, baseline)], sigs[i]),
                      rules, mode)>>
         \o CompareLoop(ts, sigs, baseline, rules, mode, i + 1)

RECURSIVE SumOver(_, _)
SumOver(cs, field) ==
    IF cs = <<>> THEN 0
    ELSE (CASE field = "known" -> Len(Head(cs).known_diffs)
            [] field = "unknown" -> Len(Head(cs).unknown_diffs)
            [] OTHER -> Head(cs).total_diffs)
         + SumOver(Tail(cs), field)

\* A mutant of OverallStatus: a single unknown diff still passes.
OverallStatusOffByOne(unknown_total, mode) ==
    IF unknown_total > 1 THEN (IF mode = "warn" THEN "warn" ELSE "fail") ELSE "pass"

OverallStatus(unknown_total, mode) ==
    IF unknown_total > 0 THEN (IF mode = "warn" THEN "warn" ELSE "fail") ELSE "pass"

\* A mutant of ExitCode: any unknown diff fails the run.
ExitCodeStrictAlways(status) == IF status = "pass" THEN 0 ELSE 1

ExitCode(status) == IF status = "fail" THEN 1 ELSE 0

\* One printed diff ahead of the lines that follow it.
Printed(diff, rest) ==
    [lines |-> <<[kind |-> "diff", diff |-> <<diff>>]>> \o rest.lines,
     printed |-> rest.printed]

\* A mutant of PrintUnknown: the limit is tested with > instead of >=.
RECURSIVE PrintUnknownOneMore(_, _, _)
PrintUnknownOneMore(unknown, printed, max_printed) ==
    IF unknown = <<>> THEN [lines |-> <<>>, printed |-> printed]
    ELSE IF printed > max_printed
    THEN [lines |-> <<[kind |-> "truncated", diff |-> <<>>]>>, printed |-> printed]
    ELSE Printed(Head(unknown), PrintUnknownOneMore(Tail(unknown), printed + 1, max_printed))

\* The inner print loop over one comparison's unknown diffs.
RECURSIVE PrintUnknown(_, _, _)
PrintUnknown(unknown, printed, max_printed) ==
    IF unknown = <<>> THEN [lines |-> <<>>, printed |-> printed]
    ELSE IF printed >= max_printed
    THEN [lines |-> <<[kind |-> "truncated", diff |-> <<>>]>>, printed |-> printed]
    ELSE Printed(Head(unknown), PrintUnknown(Tail(unknown), printed + 1, max_printed))

\* The outer print loop over the comparisons.
RECURSIVE PrintComparisons(_, _, _)
RECURSIVE AfterInner(_, _, _)
PrintComparisons(cs, printed, max_printed) ==
    IF cs = <<>> THEN <<>>
    ELSE AfterInner(cs, PrintUnknown(Head(cs).unknown_diffs, printed, max_printed),
                    max_printed)

\* if printed >= args.max_printed_unknown: break
AfterInner(cs, inner, max_printed) ==
    inner.lines
    \o (IF inner.printed >= max_printed THEN <<>>
        ELSE PrintComparisons(Tail(cs), inner.printed, max_printed))

PrintedLines(cs, unknown_total, max_printed) ==
    <<[kind |-> "summary", diff |-> <<>>]>>
    \o (IF unknown_total > 0
        THEN <<[kind |-> "header", diff |-> <<>>]>> \o PrintComparisons(cs, 0, max_printed)
        ELSE <<>>)
    \o <<[kind |-> "report", diff |-> <<>>]>>

\* except Exception: the message on stderr, return 2.
Abort(err) ==
    /\ pc' = "done"
    /\ stderr' = <<err>>
    /\ exit_code' = 2

Error(exc, msg, path, line) == [exc |-> exc, msg |-> msg, path |-> path, line |-> line]

\* args.baseline.strip() or traces[0].browser
BaselineOr(given, first) == IF given # <<>> THEN given ELSE first

\* traces = parse_trace_args(args.trace), the baseline and its membership test
ParseTraceArgs ==
    /\ pc = "parse_trace_args"
    /\ \E parsed \in {parse_trace_args(args.trace)} :
          IF parsed.exc # ""
          THEN /\ Abort(Error(parsed.exc, parsed.msg, <<>>, 0))
               /\ UNCHANGED <<traces, baseline_browser>>
          ELSE \E baseline \in {BaselineOr(Strip(args.baseline), parsed.traces[1].browser)} :
                  IF TraceIndex(parsed.traces, baseline) = 0
                  THEN /\ Abort(Error("ValueError",
                                      "baseline browser not found in --trace set", <<>>, 0))
                       /\ UNCHANGED <<traces, baseline_browser>>
                  ELSE /\ traces' = parsed.traces
                       /\ baseline_browser' = baseline
                       /\ pc' = "parse_known_divergences"
                       /\ UNCHANGED <<stderr, exit_code>>
    /\ UNCHANGED <<args, known_rules, signatures, comparisons, total_known, total_unknown,
                   total_diffs, overall_status, report_file, stdout,
                   extractCall, compareCall, classifyCall, rulesCall>>

\* known_rules = parse_known_divergences(...)
ParseKnownDivergences ==
    /\ pc = "parse_known_divergences"
    /\ \E parsed \in {parse_known_divergences(args.known # <<>>, RuleFile(args.known))} :
          IF parsed.exc # ""
          THEN /\ Abort(Error(parsed.exc,
                              IF parsed.exc = "ValueError"
                              THEN "expected 5 tab-separated fields"
                              ELSE "known divergences file not found",
                              args.known, parsed.line))
               /\ UNCHANGED known_rules
          ELSE /\ known_rules' = parsed.rules
               /\ pc' = "load"
               /\ UNCHANGED <<stderr, exit_code>>
    /\ UNCHANGED <<args, traces, baseline_browser, signatures, comparisons, total_known,
                   total_unknown, total_diffs, overall_status, report_file, stdout,
                   extractCall, compareCall, classifyCall, rulesCall>>

\* the loop that loads each trace and extracts its signature
LoadTraces ==
    /\ pc = "load"
    /\ \E loaded \in {LoadLoop(traces, 1, <<>>)} :
          IF loaded.exc # ""
          THEN /\ Abort(Error(loaded.exc, loaded.msg, loaded.path, loaded.line))
               /\ UNCHANGED signatures
          ELSE /\ signatures' = loaded.sigs
               /\ pc' = "compare"
               /\ UNCHANGED <<stderr, exit_code>>
    /\ UNCHANGED <<args, traces, baseline_browser, known_rules, comparisons, total_known,
                   total_unknown, total_diffs, overall_status, report_file, stdout,
                   extractCall, compareCall, classifyCall, rulesCall>>

\* the loop that compares each non-baseline trace with the baseline
CompareTraces ==
    /\ pc = "compare"
    /\ \E cs \in {CompareLoop(traces, signatures, baseline_browser, known_rules,
                               args.mode, 1)} :
          /\ comparisons' = cs
          /\ total_known' = SumOver(cs, "known")
          /\ total_unknown' = SumOver(cs, "unknown")
          /\ total_diffs' = SumOver(cs, "total")
    /\ pc' = "report"
    /\ UNCHANGED <<args, traces, baseline_browser, known_rules, signatures, overall_status,
                   report_file, stdout, stderr, exit_code,
                   extractCall, compareCall, classifyCall, rulesCall>>

\* overall_status, the report and report_path.write_text
WriteReport ==
    /\ pc = "report"
    /\ \E status \in {OverallStatus(total_unknown, args.mode)} :
           /\ overall_status' = status
           /\ report_file' =
                 <<[suite |-> "remote_resize_storm_cross_browser_diff",
                    mode |-> args.mode,
                    baseline_browser |-> baseline_browser,
                    trace_inputs |-> traces,
                    known_divergence_rules_loaded |-> Len(known_rules),
                    summary |-> [total_comparisons |-> Len(comparisons),
                                 total_diffs |-> total_diffs,
                                 known_diffs |-> total_known,
                                 unknown_diffs |-> total_unknown,
                                 status |-> status],
                    comparisons |-> comparisons]>>
    /\ pc' = "print"
    /\ UNCHANGED <<args, traces, baseline_browser, known_rules, signatures, comparisons,
                   total_known, total_unknown, total_diffs, stdout, stderr, exit_code,
                   extractCall, compareCall, classifyCall, rulesCall>>

\* the [DIFF] lines on stdout
PrintSummary ==
    /\ pc = "print"
    /\ stdout' = PrintedLines(comparisons, total_unknown, args.max_printed_unknown)
    /\ pc' = "return"
    /\ UNCHANGED <<args, traces, baseline_browser, known_rules, signatures, comparisons,
                   total_known, total_unknown, total_diffs, overall_status, report_file,
                   stderr, exit_code, extractCall, compareCall, classifyCall, rulesCall>>

\* return 1 if overall_status == "fail" else 0
Return ==
    /\ pc = "return"
    /\ exit_code' = ExitCode(overall_status)
    /\ pc' = "done"
    /\ UNCHANGED <<args, traces, baseline_browser, known_rules, signatures, comparisons,
                   total_known, total_unknown, total_diffs, overall_status, report_file,
                   stdout, stderr, extractCall, compareCall, classifyCall, rulesCall>>

(***************************************************************************)
(* The runs of main(): the arguments are drawn from bounded sets           *)
(***************************************************************************)
MaxTraces == 3

RawTraceItems ==
    {<<"f", "f", "=", "a">>,            \* the reference trace
     <<"e", "d", "=", "A">>,            \* the same signature, other lines
     <<"c", "r", "=", "b">>,            \* one resize input more
     <<"s", "f", "=", " ", "c">>,       \* another final frame
     <<" ", "c", "r", " ", "=", "n">>,  \* no run_end
     <<"s", "f", "=", "x">>,            \* a line that is not JSON
     <<"e", "d", "=", "v">>,            \* a line that is no object
     <<"e", "d", "=", "e">>,            \* blank lines only
     <<"s", "f", "=", "m">>,            \* no such file
     <<"f", "f">>,                      \* no "="
     <<" ", "=", "a">>}                 \* no label

\* --baseline: the default, a label of the traces, no label of the traces
BaselineArgs == {<<>>, <<"c", "r", " ">>, <<"z", "z">>}

KnownArgs == {<<>>, <<"K">>, <<"R">>, <<"Q">>}

\* --max-printed-unknown: the default, a limit of one line and a negative limit
MaxPrintedArgs == {-1, 1, 20}

SeqsUpTo(S, n) == UNION {[1..m -> S] : m \in 0..n}

MainIdle ==
    /\ pc = "done"
    /\ args = [trace |-> <<>>, baseline |-> <<>>, known |-> <<>>, mode |-> "warn",
               max_printed_unknown |-> 20]
    /\ traces = <<>>
    /\ baseline_browser = <<>>
    /\ known_rules = <<>>
    /\ signatures = <<>>
    /\ comparisons = <<>>
    /\ total_known = 0
    /\ total_unknown = 0
    /\ total_diffs = 0
    /\ overall_status = "pass"
    /\ report_file = <<>>
    /\ stdout = <<>>
    /\ stderr = <<>>
    /\ exit_code = -1

ExtractIdle == [events |-> <<>>, done |-> TRUE, ret |-> extract_signature(<<>>)]

CompareIdle ==
    [baseline_sig |-> EmptySignature, target_sig |-> EmptySignature, done |-> TRUE,
     ret |-> <<>>]

ClassifyIdle ==
    [diffs |-> <<>>, baseline_browser |-> <<>>, target_browser |-> <<>>, rules |-> <<>>,
     done |-> TRUE, ret |-> [known |-> <<>>, unknown |-> <<>>],
     swapped |-> [known |-> <<>>, unknown |-> <<>>]]

RulesIdle == [lines |-> <<>>, done |-> TRUE, ret |-> [exc |-> "", line |-> 0, rules |-> <<>>]]

Init ==
    /\ pc = "parse_trace_args"
    /\ \E trace \in SeqsUpTo(RawTraceItems, MaxTraces), baseline \in BaselineArgs,
          known \in KnownArgs, mode \in {"warn", "strict"},
          max_printed_unknown \in MaxPrintedArgs :
          args = [trace |-> trace, baseline |-> baseline, known |-> known, mode |-> mode,
                  max_printed_unknown |-> max_printed_unknown]
    /\ traces = <<>>
    /\ baseline_browser = <<>>
    /\ known_rules = <<>>
    /\ signatures = <<>>
    /\ comparisons = <<>>
    /\ total_known = 0
    /\ total_unknown = 0
    /\ total_diffs = 0
    /\ overall_status = "pass"
    /\ report_file = <<>>
    /\ stdout = <<>>
    /\ stderr = <<>>
    /\ exit_code = -1
    /\ extractCall = ExtractIdle
    /\ compareCall = CompareIdle
    /\ classifyCall = ClassifyIdle
    /\ rulesCall = RulesIdle

Next ==
    \/ ParseTraceArgs
    \/ ParseKnownDivergences
    \/ LoadTraces
    \/ CompareTraces
    \/ WriteReport
    \/ PrintSummary
    \/ Return

Spec == Init /\ [][Next]_vars

(***************************************************************************)
(* extract_signature applied to bounded event sequences                    *)
(***************************************************************************)
MaxEvents == 6

ExtractEvents ==
    {FrameEvent(JInt(80), JInt(24)), FrameEvent(JInt(100), JInt(30)),
     FrameEvent(JNone, JInt(24)),
     Event(JStr(Text("input")), JStr(Text("resize")), JInt(80), JInt(24), JStr(<<"k">>)),
     RunEndEvent}

ExtractInit ==
    /\ \E events \in SeqsUpTo(ExtractEvents, MaxEvents) :
          extractCall = [events |-> events, done |-> FALSE, ret |-> extract_signature(<<>>)]
    /\ compareCall = CompareIdle
    /\ classifyCall = ClassifyIdle
    /\ rulesCall = RulesIdle
    /\ MainIdle

ExtractSignature ==
    /\ ~extractCall.done
    /\ extractCall' = [extractCall EXCEPT !.done = TRUE,
                                          !.ret = extract_signature(extractCall.events)]
    /\ UNCHANGED <<mainVars, compareCall, classifyCall, rulesCall>>

SpecExtract == ExtractInit /\ [][ExtractSignature]_vars

(***************************************************************************)
(* extract_signature applied to events whose fields hold JSON values of    *)
(* every kind                                                              *)
(***************************************************************************)
\* JSON values of every kind: null (an absent key reads the same), booleans,
\* integers, 3.7, NaN, Infinity (json.loads reads 1e999 as inf), strings with
\* and without the text of an integer, an array and an object.
JsonValues ==
    {JNone, JBool(TRUE), JBool(FALSE), JInt(80), JInt(-1), JFloat("finite", 3),
     JFloat("nan", 0), JFloat("inf", 0), JStr(<<"8", "0">>), JStr(<<"k">>), JStr(<<>>),
     JList, JDict}

\* A resize input or a frame, and a run_end, with u, v and w in their fields.
CoerceEvents(type, u, v, w) ==
    <<[Event(JStr(type), JStr(Text("resize")), u, v, w) EXCEPT !.frame_hash = u],
      [Event(JStr(Text("run_end")), JNone, JNone, JNone, JNone)
          EXCEPT !.status = w, !.outcome = u, !.frames = v,
                 !.checksum_chain = v, !.output_sha256 = w]>>

CoerceInit ==
    /\ \E type \in {Text("input"), Text("frame")}, u \in JsonValues, v \in JsonValues,
          w \in JsonValues :
          extractCall = [events |-> CoerceEvents(type, u, v, w), done |-> FALSE,
                         ret |-> extract_signature(<<>>)]
    /\ compareCall = CompareIdle
    /\ classifyCall = ClassifyIdle
    /\ rulesCall = RulesIdle
    /\ MainIdle

SpecCoerce == CoerceInit /\ [][ExtractSignature]_vars

(***************************************************************************)
(* extract_signature applied to traces with several run_end events         *)
(***************************************************************************)
MaxRunEndEvents == 4

\* A run_end with every field of the summary.
FullRunEnd ==
    [RunEndEvent EXCEPT !.checksum_chain = JStr(<<"c">>), !.output_sha256 = JStr(<<"s">>)]

\* A run_end with status and frames only.
PartialRunEnd ==
    [Event(JStr(Text("run_end")), JNone, JNone, JNone, JNone)
        EXCEPT !.status = JStr(<<"e">>), !.frames = JInt(0)]

RunEndTraceEvents == {FullRunEnd, PartialRunEnd, FrameEvent(JInt(80), JInt(24))}

RunEndInit ==
    /\ \E events \in SeqsUpTo(RunEndTraceEvents, MaxRunEndEvents) :
          extractCall = [events |-> events, done |-> FALSE, ret |-> extract_signature(<<>>)]
    /\ compareCall = CompareIdle
    /\ classifyCall = ClassifyIdle
    /\ rulesCall = RulesIdle
    /\ MainIdle

SpecRunEnd == RunEndInit /\ [][ExtractSignature]_vars

(***************************************************************************)
(* compare_signatures applied to bounded pairs of signatures               *)
(***************************************************************************)
\* The entries of a signature's three lists, taken together.
MaxSigItems == 2

RunEnds ==
    {[status |-> re[1], outcome |-> re[2], frames |-> re[3],
      checksum_chain |-> <<>>, output_sha256 |-> <<>>] :
        re \in {<<(<<"o", "k">>), <<"p", "a", "s", "s">>, 1>>,
                <<(<<"e", "r", "r">>), <<"p", "a", "s", "s">>, 1>>,
                <<(<<"o", "k">>), <<"f", "a", "i", "l">>, -1>>}}

ResizeEntries ==
    {[cols |-> 80, rows |-> 24, hash_key |-> H1], [cols |-> 100, rows |-> 24, hash_key |-> H1],
     [cols |-> 80, rows |-> 24, hash_key |-> H2]}

FrameEntries ==
    {[cols |-> 80, rows |-> 24, frame_hash |-> <<"f">>, hash_key |-> H1],
     [cols |-> 100, rows |-> 24, frame_hash |-> <<"f">>, hash_key |-> H1],
     [cols |-> 80, rows |-> 24, frame_hash |-> <<"f">>, hash_key |-> H2]}

GeomEntries == {Geom(80, 24), Geom(100, 24)}

Signatures ==
    {[run_end |-> re, resize_inputs |-> ri, frames |-> fs, geometry_sequence |-> gs] :
        re \in RunEnds, ri \in SeqsUpTo(ResizeEntries, MaxSigItems),
        fs \in SeqsUpTo(FrameEntries, MaxSigItems), gs \in SeqsUpTo(GeomEntries, MaxSigItems)}

SmallSignatures ==
    {sig \in Signatures :
        Len(sig.resize_inputs) + Len(sig.frames) + Len(sig.geometry_sequence) <= MaxSigItems}

CompareInit ==
    /\ \E baseline_sig \in SmallSignatures, target_sig \in SmallSignatures :
          compareCall = [baseline_sig |-> baseline_sig, target_sig |-> target_sig,
                         done |-> FALSE, ret |-> <<>>]
    /\ extractCall = ExtractIdle
    /\ classifyCall = ClassifyIdle
    /\ rulesCall = RulesIdle
    /\ MainIdle

CompareSignatures ==
    /\ ~compareCall.done
    /\ compareCall' =
          [compareCall EXCEPT !.done = TRUE,
                              !.ret = compare_signatures(compareCall.baseline_sig,
                                                         compareCall.target_sig)]
    /\ UNCHANGED <<mainVars, extractCall, classifyCall, rulesCall>>

SpecCompare == CompareInit /\ [][CompareSignatures]_vars

(***************************************************************************)
(* classify_diffs applied, in both orientations of the browser pair, to    *)
(* bounded diff lists, rule lists and labels                               *)
(***************************************************************************)
MaxDiffs == 2
MaxRules == 2

ClassifyLabels == {Text("firefox99"), Text("chrome12")}

ClassifyDiffs ==
    {Diff(Text("frame_count"), Text("frames.length"), JInt(1), JInt(2),
          "frame event count diverged"),
     Diff(Text("final_frame_hash_key"), Text("frames[-1].hash_key"), JStr(H1), JStr(H2),
          "final frame hash_key diverged")}

\* Left and right browser patterns of the rules, and a letter that names them.
BrowserPatterns ==
    {<<Text("*"), Text("*"), "a">>,
     <<Text("firefoxish*"), Text("chromish*"), "i">>,
     <<Text("firefox*"), Text("chrom*"), "f">>}

\* Path patterns of the rules, and a letter that names them.
PathPatterns == {<<Text("*"), "1">>, <<(<<"f", "r", "a", "m", "e", "s", ".", "*">>), "2">>}

\* Each rule has a rationale of its own.
ClassifyRules ==
    {KnownDivergence(Text("*"), bp[1], bp[2], pp[1], <<bp[3], pp[2]>>) :
        bp \in BrowserPatterns, pp \in PathPatterns}

ClassifyInit ==
    /\ \E diffs \in SeqsUpTo(ClassifyDiffs, MaxDiffs), rules \in SeqsUpTo(ClassifyRules, MaxRules),
          a \in ClassifyLabels, b \in ClassifyLabels :
          classifyCall = [ClassifyIdle EXCEPT !.diffs = diffs, !.rules = rules,
                                              !.baseline_browser = a, !.target_browser = b,
                                              !.done = FALSE]
    /\ extractCall = ExtractIdle
    /\ compareCall = CompareIdle
    /\ rulesCall = RulesIdle
    /\ MainIdle

\* classify_diffs(diffs, A, B, rules) and classify_diffs(diffs, B, A, rules)
ClassifyDiffsBothWays ==
    /\ ~classifyCall.done
    /\ classifyCall' =
          [classifyCall EXCEPT
              !.done = TRUE,
              !.ret = classify_diffs(classifyCall.diffs, classifyCall.baseline_browser,
                                     classifyCall.target_browser, classifyCall.rules),
              !.swapped = classify_diffs(classifyCall.diffs, classifyCall.target_browser,
                                         classifyCall.baseline_browser, classifyCall.rules)]
    /\ UNCHANGED <<mainVars, extractCall, compareCall, rulesCall>>

SpecClassify == ClassifyInit /\ [][ClassifyDiffsBothWays]_vars

(***************************************************************************)
(* parse_known_divergences applied to bounded rule files                   *)
(***************************************************************************)
MaxRuleLines == 3

\* Lines of a rule file: a comment, a blank line, a row of five cells, a row
\* whose two browser cells are empty, a row of three cells, and a row of five
\* cells whose first cell is empty.
RuleFileLines ==
    {<<"#", "c">>,
     <<>>,
     <<"a", "\t", "b", "\t", "c", "\t", "d", "\t", "1">>,
     <<"a", "\t", "\t", "\t", "d", "\t", "2">>,
     <<"a", "\t", "b", "\t", "c">>,
     <<"\t", "b", "\t", "c", "\t", "d", "\t", "3">>}

RulesInit ==
    /\ \E lines \in SeqsUpTo(RuleFileLines, MaxRuleLines) :
          rulesCall = [RulesIdle EXCEPT !.lines = lines, !.done = FALSE]
    /\ extractCall = ExtractIdle
    /\ compareCall = CompareIdle
    /\ classifyCall = ClassifyIdle
    /\ MainIdle

\* parse_known_divergences(path) on a file that exists
ParseRuleFile ==
    /\ ~rulesCall.done
    /\ rulesCall' = [rulesCall EXCEPT !.done = TRUE,
                                      !.ret = parse_known_divergences(TRUE, <<rulesCall.lines>>)]
    /\ UNCHANGED <<mainVars, extractCall, compareCall, classifyCall>>

SpecRules == RulesInit /\ [][ParseRuleFile]_vars

(***************************************************************************)
(* C2                                                                      *)
(***************************************************************************)
\* The "{cols}x{rows}" strings of the frame events, in file order.
FrameGeoms(events) ==
    LET frames == SelectFrames(events)
    IN  [i \in DOMAIN frames |-> Geom(frames[i].cols, frames[i].rows)]

\* The positions of gs that start a run: the first, and each that differs from
\* its predecessor.
RunStarts(gs) == {i \in DOMAIN gs : i = 1 \/ gs[i] # gs[i - 1]}

\* gs restricted to the positions in idx, in order.
RECURSIVE Pick(_, _, _)
Pick(gs, idx, i) ==
    IF i > Len(gs) THEN <<>>
    ELSE (IF i \in idx THEN <<gs[i]>> ELSE <<>>) \o Pick(gs, idx, i + 1)

C2Example ==
    <<FrameEvent(JInt(80), JInt(24)), FrameEvent(JInt(80), JInt(24)),
      FrameEvent(JInt(100), JInt(30)), FrameEvent(JInt(100), JInt(30)),
      FrameEvent(JInt(80), JInt(24)), RunEndEvent>>

\* C2: the geometry_sequence extract_signature returns is the run-length collapse
\* of the frames' "{cols}x{rows}" strings in file order: it holds exactly the
\* entries that start a run, so no two adjacent entries are equal, and the
\* frames (80,24),(80,24),(100,30),(100,30),(80,24) give 80x24, 100x30, 80x24.
C2_GeometryCollapse ==
    (extractCall.done /\ extractCall.ret.exc = "") =>
        LET gs == FrameGeoms(extractCall.events)
            out == extractCall.ret.sig.geometry_sequence
        IN  /\ out = Pick(gs, RunStarts(gs), 1)
            /\ \A i \in 1..(Len(out) - 1) : out[i] # out[i + 1]
            /\ extractCall.events = C2Example =>
                  out = <<Text("80x24"), Text("100x30"), Text("80x24")>>

C2_Witness ==
    /\ extractCall.done
    /\ extractCall.events = C2Example
    /\ extractCall.ret.exc = ""
    /\ Len(extractCall.ret.sig.geometry_sequence) = 3

(***************************************************************************)
(* C1                                                                      *)
(***************************************************************************)
\* C1: reflexivity: for every signature S (any run_end summary, any lists, the
\* empty ones included) compare_signatures(S, S) returns the empty diff list.
C1_Reflexivity ==
    (compareCall.done /\ compareCall.baseline_sig = compareCall.target_sig) =>
        compareCall.ret = <<>>

\* S compared with itself, S holding two frames that differ.
C1_Witness ==
    /\ compareCall.done
    /\ compareCall.baseline_sig = compareCall.target_sig
    /\ Len(compareCall.baseline_sig.frames) = 2
    /\ compareCall.baseline_sig.frames[1] # compareCall.baseline_sig.frames[2]
    /\ compareCall.baseline_sig.run_end.frames = -1
    /\ compareCall.ret = <<>>

(***************************************************************************)
(* C3, C4, C5                                                              *)
(***************************************************************************)
\* A classified diff without the context and the rationale classify_diffs adds.
Bare(entry) ==
    Diff(entry.class, entry.path, entry.expected, entry.actual, entry.details)

\* The rule matches the diff for the pair (a, b) as the specification words it:
\* class and path glob-match, and the browser pair does in either orientation.
GlobMatches(rule, diff, a, b) ==
    /\ fnmatchcase(diff.class, rule.class_pattern)
    /\ fnmatchcase(diff.path, rule.path_pattern)
    /\ \/ fnmatchcase(a, rule.left_browser_pattern) /\ fnmatchcase(b, rule.right_browser_pattern)
       \/ fnmatchcase(b, rule.left_browser_pattern) /\ fnmatchcase(a, rule.right_browser_pattern)

IsKnownIn(classified, diff) ==
    \E k \in DOMAIN classified.known : Bare(classified.known[k]) = diff

IsUnknownIn(classified, diff) ==
    \E k \in DOMAIN classified.unknown : Bare(classified.unknown[k]) = diff

\* C3: rule symmetry: classify_diffs(diffs, A, B, rules) and
\* classify_diffs(diffs, B, A, rules) put the same diffs in known and the same
\* diffs in unknown and attach the same rationale to each known diff; a rule
\* matches a diff for (A, B) iff it matches it for (B, A).
C3_RuleSymmetry ==
    classifyCall.done =>
        LET fwd == classifyCall.ret
            rev == classifyCall.swapped
        IN  /\ Len(fwd.known) = Len(rev.known)
            /\ Len(fwd.unknown) = Len(rev.unknown)
            /\ \A k \in DOMAIN fwd.known :
                  /\ Bare(fwd.known[k]) = Bare(rev.known[k])
                  /\ fwd.known[k].known_rationale = rev.known[k].known_rationale
            /\ \A k \in DOMAIN fwd.unknown : Bare(fwd.unknown[k]) = Bare(rev.unknown[k])
            /\ \A i \in DOMAIN classifyCall.rules, d \in DOMAIN classifyCall.diffs :
                  RuleMatches(classifyCall.rules[i], classifyCall.diffs[d],
                              classifyCall.baseline_browser, classifyCall.target_browser)
                  <=> RuleMatches(classifyCall.rules[i], classifyCall.diffs[d],
                                  classifyCall.target_browser, classifyCall.baseline_browser)

\* A rule written for (firefox, chrom), used with the chrome trace as baseline:
\* it matches in the reverse orientation only, and the diff is known both ways.
C3_Witness ==
    /\ classifyCall.done
    /\ classifyCall.baseline_browser = Text("chrome12")
    /\ classifyCall.target_browser = Text("firefox99")
    /\ Len(classifyCall.rules) = 1
    /\ classifyCall.rules[1].left_browser_pattern = Text("firefox*")
    /\ classifyCall.rules[1].path_pattern # Text("*")
    /\ Len(classifyCall.diffs) = 2
    /\ Len(classifyCall.ret.known) = 1
    /\ Len(classifyCall.swapped.known) = 1
    /\ Len(classifyCall.ret.unknown) = 1

\* The call is the example's: baseline firefox99, target chrome12 in ret and
\* baseline chrome12, target firefox99 in swapped.
ExampleCall ==
    /\ classifyCall.done
    /\ classifyCall.baseline_browser = Text("firefox99")
    /\ classifyCall.target_browser = Text("chrome12")

\* Some rule has these browser patterns and class and path patterns that match.
HasRule(left, right, diff) ==
    \E i \in DOMAIN classifyCall.rules :
        /\ classifyCall.rules[i].left_browser_pattern = left
        /\ classifyCall.rules[i].right_browser_pattern = right
        /\ fnmatchcase(diff.class, classifyCall.rules[i].class_pattern)
        /\ fnmatchcase(diff.path, classifyCall.rules[i].path_pattern)

\* C4 as stated: a rule with left firefoxish* and right chromish* whose class
\* and path patterns match the diff makes the diff known with baseline
\* firefox99 / target chrome12 and with baseline chrome12 / target firefox99.
C4_FirefoxishSuppresses ==
    ExampleCall =>
        \A d \in DOMAIN classifyCall.diffs :
            HasRule(Text("firefoxish*"), Text("chromish*"), classifyCall.diffs[d]) =>
                /\ IsKnownIn(classifyCall.ret, classifyCall.diffs[d])
                /\ IsKnownIn(classifyCall.swapped, classifyCall.diffs[d])

\* C4 amended: a rule with left firefox* and right chrom* whose class and path
\* patterns match the diff makes the diff known in both orientations of
\* firefox99 and chrome12; when every rule has left firefoxish* and right
\* chromish*, which match neither label, the diff is unknown in both.
C4_FirefoxSuppresses ==
    ExampleCall =>
        \A d \in DOMAIN classifyCall.diffs :
            /\ HasRule(Text("firefox*"), Text("chrom*"), classifyCall.diffs[d]) =>
                  /\ IsKnownIn(classifyCall.ret, classifyCall.diffs[d])
                  /\ IsKnownIn(classifyCall.swapped, classifyCall.diffs[d])
            /\ (\A i \in DOMAIN classifyCall.rules :
                    /\ classifyCall.rules[i].left_browser_pattern = Text("firefoxish*")
                    /\ classifyCall.rules[i].right_browser_pattern = Text("chromish*")) =>
                  /\ IsUnknownIn(classifyCall.ret, classifyCall.diffs[d])
                  /\ IsUnknownIn(classifyCall.swapped, classifyCall.diffs[d])

\* The example's call with the one rule (*, firefox*, chrom*, *).
C4_Witness ==
    /\ ExampleCall
    /\ Len(classifyCall.diffs) = 1
    /\ Len(classifyCall.rules) = 1
    /\ classifyCall.rules[1].left_browser_pattern = Text("firefox*")
    /\ classifyCall.rules[1].right_browser_pattern = Text("chrom*")
    /\ classifyCall.rules[1].path_pattern = Text("*")
    /\ Len(classifyCall.ret.known) = 1
    /\ Len(classifyCall.swapped.known) = 1

\* C5: first-match priority: the rationale attached to a known diff is that of
\* the matching rule with the smallest index; the rules after it have no
\* influence; every diff that some rule matches is known.
C5_FirstMatchPriority ==
    classifyCall.done =>
        /\ \A k \in DOMAIN classifyCall.ret.known :
              \E i \in DOMAIN classifyCall.rules :
                  /\ GlobMatches(classifyCall.rules[i], Bare(classifyCall.ret.known[k]),
                                 classifyCall.baseline_browser, classifyCall.target_browser)
                  /\ classifyCall.ret.known[k].known_rationale = classifyCall.rules[i].rationale
                  /\ \A j \in 1..(i - 1) :
                        ~GlobMatches(classifyCall.rules[j], Bare(classifyCall.ret.known[k]),
                                     classifyCall.baseline_browser,
                                     classifyCall.target_browser)
        /\ \A d \in DOMAIN classifyCall.diffs :
              (\E i \in DOMAIN classifyCall.rules :
                  GlobMatches(classifyCall.rules[i], classifyCall.diffs[d],
                              classifyCall.baseline_browser, classifyCall.target_browser))
              <=> IsKnownIn(classifyCall.ret, classifyCall.diffs[d])

\* Two rules that both match the diff, the more specific one listed second:
\* the rationale is the first rule's.
C5_Witness ==
    /\ classifyCall.done
    /\ Len(classifyCall.rules) = 2
    /\ Len(classifyCall.diffs) = 1
    /\ classifyCall.rules[1].rationale # classifyCall.rules[2].rationale
    /\ classifyCall.rules[1].path_pattern = Text("*")
    /\ classifyCall.rules[2].path_pattern # Text("*")
    /\ \A i \in 1..2 :
          GlobMatches(classifyCall.rules[i], classifyCall.diffs[1],
                      classifyCall.baseline_browser, classifyCall.target_browser)
    /\ Len(classifyCall.ret.known) = 1
    /\ classifyCall.ret.known[1].known_rationale = classifyCall.rules[1].rationale

(***************************************************************************)
(* C6 .. C10: the runs of main()                                           *)
(***************************************************************************)
\* What the command line and the files ask for, read off args and the files.
HasEq(raw) == \E p \in DOMAIN raw : raw[p] = "="

EqPos(raw) == CHOOSE p \in DOMAIN raw : raw[p] = "=" /\ \A q \in 1..(p - 1) : raw[q] # "="

ItemLabel(raw) == Strip(SubSeq(raw, 1, EqPos(raw) - 1))

ItemPath(raw) == Strip(SubSeq(raw, EqPos(raw) + 1, Len(raw)))

Labels == {ItemLabel(args.trace[i]) : i \in DOMAIN args.trace}

\* Fewer than two traces, an item that is no BROWSER=PATH, duplicate labels, or
\* a baseline label that is not among the traces.
UsageError ==
    \/ Len(args.trace) < 2
    \/ \E i \in DOMAIN args.trace : ~HasEq(args.trace[i])
    \/ <<>> \in Labels
    \/ Cardinality(Labels) # Len(args.trace)
    \/ Strip(args.baseline) # <<>> /\ Strip(args.baseline) \notin Labels

\* The trace file is missing, malformed, empty, or holds no run_end event.
BadTraceFile(path) ==
    \/ TraceFile(path) = <<>>
    \/ \E l \in DOMAIN TraceFile(path)[1] : TraceFile(path)[1][l].kind \in {"invalid", "value"}
    \/ \A l \in DOMAIN TraceFile(path)[1] : TraceFile(path)[1][l].kind = "blank"
    \/ \A l \in DOMAIN TraceFile(path)[1] :
          TraceFile(path)[1][l].kind = "object" =>
              TraceFile(path)[1][l].event.type # JStr(Text("run_end"))

\* The rows of the rule file: its lines that are neither blank nor comments.
RuleRows ==
    IF args.known = <<>> \/ RuleFile(args.known) = <<>> THEN {}
    ELSE {l \in DOMAIN RuleFile(args.known)[1] :
             /\ Strip(RuleFile(args.known)[1][l]) # <<>>
             /\ Head(Strip(RuleFile(args.known)[1][l])) # "#"}

Tabs(line) == Cardinality({p \in DOMAIN line : line[p] = "\t"})

\* The rule file is missing or one of its rows has fewer than five fields.
BadRuleFile ==
    /\ args.known # <<>>
    /\ \/ RuleFile(args.known) = <<>>
       \/ \E l \in RuleRows : Tabs(Strip(RuleFile(args.known)[1][l])) < 4

FatalInput ==
    \/ UsageError
    \/ BadRuleFile
    \/ \E i \in DOMAIN args.trace : BadTraceFile(ItemPath(args.trace[i]))

Report == report_file[1]

\* C6: no partial report: a run that hits a fatal error (fewer than two traces,
\* duplicate labels, baseline not among the traces, a missing, empty or
\* malformed trace file, a trace without run_end, a malformed rule row) exits
\* with code 2 and never writes the report; the report is written only after
\* all rules and all traces are loaded and every comparison is computed.
C6_NoPartialReport ==
    /\ (pc = "done" /\ FatalInput) => exit_code = 2
    /\ exit_code = 2 => report_file = <<>>
    /\ report_file # <<>> =>
          /\ ~FatalInput
          /\ pc \in {"print", "return", "done"}
          /\ Len(known_rules) = Cardinality(RuleRows)
          /\ Report.known_divergence_rules_loaded = Cardinality(RuleRows)
          /\ Len(signatures) = Len(args.trace)
          /\ Len(comparisons) = Len(args.trace) - 1
          /\ Report.comparisons = comparisons

\* The third of three traces holds no run_end: the rules and two traces are
\* loaded, the run ends with code 2 and without a report.
C6_Witness ==
    /\ pc = "done"
    /\ exit_code = 2
    /\ Len(traces) = 3
    /\ traces[3].path = <<"n">>
    /\ known_rules # <<>>
    /\ stderr # <<>>
    /\ stderr[1].msg = "missing run_end event"
    /\ report_file = <<>>

\* C7: per-comparison status: in every comparison of the report the status is
\* pass iff unknown_diffs is empty; otherwise it is warn in warn mode and fail
\* in strict mode; known diffs have no part in it.
C7_ComparisonStatus ==
    report_file # <<>> =>
        \A k \in DOMAIN Report.comparisons :
            /\ Report.comparisons[k].status = "pass"
                  <=> Report.comparisons[k].unknown_diffs = <<>>
            /\ Report.comparisons[k].unknown_diffs # <<>> =>
                  Report.comparisons[k].status
                      = (IF Report.mode = "warn" THEN "warn" ELSE "fail")

\* A strict run whose first comparison has known diffs only and passes and
\* whose second has unknown diffs and fails.
C7_Witness ==
    /\ report_file # <<>>
    /\ Report.mode = "strict"
    /\ Len(Report.comparisons) = 2
    /\ Report.comparisons[1].known_diffs # <<>>
    /\ Report.comparisons[1].unknown_diffs = <<>>
    /\ Report.comparisons[1].status = "pass"
    /\ Report.comparisons[2].unknown_diffs # <<>>
    /\ Report.comparisons[2].status = "fail"

Rank(status) == CASE status = "pass" -> 0 [] status = "warn" -> 1 [] OTHER -> 2

\* C8: overall status: summary.status is pass iff every comparison's status is
\* pass; otherwise it is warn (warn mode) or fail (strict mode); it equals the
\* worst comparison status and is never better than any of them.
C8_OverallStatus ==
    report_file # <<>> =>
        /\ Report.summary.status = "pass"
              <=> \A k \in DOMAIN Report.comparisons : Report.comparisons[k].status = "pass"
        /\ Report.summary.status # "pass" =>
              Report.summary.status = (IF Report.mode = "warn" THEN "warn" ELSE "fail")
        /\ \A k \in DOMAIN Report.comparisons :
              Rank(Report.comparisons[k].status) <= Rank(Report.summary.status)
        /\ \E k \in DOMAIN Report.comparisons :
              Report.comparisons[k].status = Report.summary.status

\* Three traces, one diverging target with a single unknown diff: the overall
\* status is the diverging comparison's.
C8_Witness ==
    /\ report_file # <<>>
    /\ Len(Report.comparisons) = 2
    /\ Report.comparisons[1].status = "pass"
    /\ Report.comparisons[2].status = "warn"
    /\ Len(Report.comparisons[2].unknown_diffs) = 1
    /\ Report.summary.unknown_diffs = 1
    /\ Report.summary.status = "warn"

C10_OnePerTarget ==
    report_file # <<>> =>
        /\ Report.baseline_browser \in Labels
        /\ Strip(args.baseline) # <<>> => Report.baseline_browser = Strip(args.baseline)
        /\ Len(Report.comparisons) = Cardinality(Labels) - 1
        /\ Len(Report.comparisons) = Len(args.trace) - 1
        /\ \A k \in DOMAIN Report.comparisons :
              /\ Report.comparisons[k].baseline_browser = Report.baseline_browser
              /\ Report.comparisons[k].target_browser # Report.baseline_browser
        /\ {Report.comparisons[k].target_browser : k \in DOMAIN Report.comparisons}
              = Labels \ {Report.baseline_browser}

\* Three traces with the second one named as the baseline: two comparisons.
C10_Witness ==
    /\ report_file # <<>>
    /\ Len(args.trace) = 3
    /\ Report.baseline_browser = <<"c", "r">>
    /\ traces[2].browser = <<"c", "r">>
    /\ Len(Report.comparisons) = 2
    /\ Report.comparisons[1].target_browser = traces[1].browser
    /\ Report.comparisons[2].target_browser = traces[3].browser

(***************************************************************************)
(* C11                                                                     *)
(***************************************************************************)
\* longer is shorter followed by one or more entries.
Extends(longer, shorter) ==
    /\ Len(longer) > Len(shorter)
    /\ SubSeq(longer, 1, Len(shorter)) = shorter

\* The call compares a baseline with a target that is the baseline but for
\* extra resize entries at the end.
ExtraResizeCall ==
    /\ compareCall.done
    /\ Extends(compareCall.target_sig.resize_inputs, compareCall.baseline_sig.resize_inputs)
    /\ compareCall.target_sig =
          [compareCall.baseline_sig EXCEPT
              !.resize_inputs = compareCall.target_sig.resize_inputs]

\* The empty rule list, and each one-rule list whose rule does not match diff
\* between firefox99 and chrome12.
UnmatchedRuleLists(diff) ==
    {<<>>} \cup {<<rule>> : rule \in {r \in ClassifyRules :
                     ~GlobMatches(r, diff, Text("firefox99"), Text("chrome12"))}}

\* C11: when the target signature is the baseline signature but for one or more
\* extra entries at the end of resize_inputs, compare_signatures returns
\* exactly one diff, of class resize_inputs_length, whose expected is the
\* baseline's length and whose actual is the target's; classify_diffs puts it
\* in unknown when no rule matches it.
C11_LengthDivergence ==
    ExtraResizeCall =>
        /\ Len(compareCall.ret) = 1
        /\ compareCall.ret[1].class = Text("resize_inputs_length")
        /\ compareCall.ret[1].expected = JInt(Len(compareCall.baseline_sig.resize_inputs))
        /\ compareCall.ret[1].actual = JInt(Len(compareCall.target_sig.resize_inputs))
        /\ \A rules \in UnmatchedRuleLists(compareCall.ret[1]) :
              LET classified == classify_diffs(compareCall.ret, Text("firefox99"),
                                               Text("chrome12"), rules)
              IN  /\ classified.known = <<>>
                  /\ Len(classified.unknown) = 1
                  /\ Bare(classified.unknown[1]) = compareCall.ret[1]

\* Baseline [(80,24)] against target [(80,24), (80,24)]: expected 1, actual 2,
\* and a rule list of one rule that does not match.
C11_Witness ==
    /\ ExtraResizeCall
    /\ compareCall.baseline_sig.resize_inputs = <<[cols |-> 80, rows |-> 24, hash_key |-> H1]>>
    /\ compareCall.target_sig.resize_inputs =
          <<[cols |-> 80, rows |-> 24, hash_key |-> H1], [cols |-> 80, rows |-> 24, hash_key |-> H1]>>
    /\ compareCall.ret[1].expected = JInt(1)
    /\ compareCall.ret[1].actual = JInt(2)
    /\ Cardinality(UnmatchedRuleLists(compareCall.ret[1])) > 1

(***************************************************************************)
(* C12                                                                     *)
(***************************************************************************)
\* The lines of the trace file that are no JSON object: invalid JSON, or a
\* JSON value of another kind.
BadTraceLines(path) ==
    IF TraceFile(path) = <<>> THEN {}
    ELSE {l \in DOMAIN TraceFile(path)[1] : TraceFile(path)[1][l].kind \in {"invalid", "value"}}

\* The rows of the rule file with fewer than five fields.
BadRuleRows == {l \in RuleRows : Tabs(Strip(RuleFile(args.known)[1][l])) < 4}

\* The paths of the trace files that are missing, malformed, empty or without
\* run_end.
BadTracePaths ==
    {ItemPath(args.trace[i]) : i \in {j \in DOMAIN args.trace : BadTraceFile(ItemPath(args.trace[j]))}}

\* The run ended on a fatal error of a trace file or of the rule file.
FileErrorExit == pc = "done" /\ exit_code = 2 /\ ~UsageError

\* The error names the rule file, and the first malformed row when there is one.
RuleErrorLocated ==
    /\ stderr[1].path = args.known
    /\ BadRuleRows # {} => stderr[1].line = Least(BadRuleRows)

\* The error names a bad trace file, and the file's first malformed line when
\* there is one.
TraceErrorLocated ==
    /\ stderr[1].path \in BadTracePaths
    /\ BadTraceLines(stderr[1].path) # {} => stderr[1].line = Least(BadTraceLines(stderr[1].path))

\* C12: every fatal trace-load error, signature error (a trace without run_end)
\* and rule-format error is reported with the path of the offending file, and
\* an error of one line (malformed trace line, malformed rule row) with the
\* 1-based number of that line as well.
C12_ErrorContext ==
    FileErrorExit =>
        /\ stderr[1].path # <<>>
        /\ IF BadRuleFile THEN RuleErrorLocated ELSE TraceErrorLocated

\* The same for the errors load_jsonl and parse_known_divergences raise,
\* leaving out the error extract_signature raises.
LoadAndRuleErrorsLocated ==
    (FileErrorExit /\ stderr[1].msg # "missing run_end event") =>
        /\ stderr[1].path # <<>>
        /\ IF BadRuleFile THEN RuleErrorLocated ELSE TraceErrorLocated

(***************************************************************************)
(* C13, C14                                                                *)
(***************************************************************************)
HasRunEnd(events) ==
    \E i \in DOMAIN events : events[i].type = JStr(Text("run_end"))

\* C13: extract_signature returns a Signature and never raises for a sequence
\* of events that holds a run_end, whatever JSON values the fields cols, rows,
\* frames, hash_key, frame_hash, status, outcome, checksum_chain and
\* output_sha256 hold.
C13_Totality ==
    (extractCall.done /\ HasRunEnd(extractCall.events)) => extractCall.ret.exc = ""

\* The integer the claim gives a field: the value of a JSON integer, -1 for
\* any other value.
TypedInt(value) == IF value.t = "int" THEN value.n ELSE -1

\* The string the claim gives a field: the value of a JSON string, "" for any
\* other value.
TypedStr(value) == IF value.t = "str" THEN value.s ELSE <<>>

\* The entries of the signature's list that the event at position 1 gives.
EntryOf(sig) == IF sig.frames # <<>> THEN sig.frames[1] ELSE sig.resize_inputs[1]

\* C14: every integer field of the Signature (cols, rows, run_end frames) is
\* the event's value when that is a JSON integer and -1 when the value is
\* absent or of another type; every string field (hash_key, frame_hash,
\* status, outcome, checksum_chain, output_sha256) is the event's value when
\* that is a string and "" otherwise.
C14_TypedCoercion ==
    (extractCall.done /\ extractCall.ret.exc = "" /\ Len(extractCall.events) = 2) =>
        LET event == extractCall.events[1]
            run_end == extractCall.events[2]
            sig == extractCall.ret.sig
        IN  /\ Len(sig.frames) + Len(sig.resize_inputs) = 1
            /\ EntryOf(sig).cols = TypedInt(event.cols)
            /\ EntryOf(sig).rows = TypedInt(event.rows)
            /\ EntryOf(sig).hash_key = TypedStr(event.hash_key)
            /\ sig.frames # <<>> => sig.frames[1].frame_hash = TypedStr(event.frame_hash)
            /\ sig.run_end.frames = TypedInt(run_end.frames)
            /\ sig.run_end.status = TypedStr(run_end.status)
            /\ sig.run_end.outcome = TypedStr(run_end.outcome)
            /\ sig.run_end.checksum_chain = TypedStr(run_end.checksum_chain)
            /\ sig.run_end.output_sha256 = TypedStr(run_end.output_sha256)

\* The string fields alone.
StringFieldsTyped ==
    (extractCall.done /\ extractCall.ret.exc = "" /\ Len(extractCall.events) = 2) =>
        LET event == extractCall.events[1]
            run_end == extractCall.events[2]
            sig == extractCall.ret.sig
        IN  /\ EntryOf(sig).hash_key = TypedStr(event.hash_key)
            /\ sig.frames # <<>> => sig.frames[1].frame_hash = TypedStr(event.frame_hash)
            /\ sig.run_end.status = TypedStr(run_end.status)
            /\ sig.run_end.outcome = TypedStr(run_end.outcome)
            /\ sig.run_end.checksum_chain = TypedStr(run_end.checksum_chain)
            /\ sig.run_end.output_sha256 = TypedStr(run_end.output_sha256)

(***************************************************************************)
(* C15                                                                     *)
(***************************************************************************)
\* The positions of the run_end events.
RunEndPositions(events) == {i \in DOMAIN events : events[i].type = JStr(Text("run_end"))}

\* i is the position of the last run_end event.
IsLastRunEnd(events, i) ==
    /\ i \in RunEndPositions(events)
    /\ \A j \in RunEndPositions(events) : j <= i

\* The summary of one run_end event, read field by field.
SummaryOf(event) ==
    [status |-> TypedStr(event.status), outcome |-> TypedStr(event.outcome),
     frames |-> TypedInt(event.frames), checksum_chain |-> TypedStr(event.checksum_chain),
     output_sha256 |-> TypedStr(event.output_sha256)]

\* C15: the run_end summary of the Signature (status, outcome, frames,
\* checksum_chain, output_sha256) is that of the last run_end event in file
\* order, whatever the earlier run_end events hold; a trace with no run_end
\* event fails extraction.
C15_LastRunEnd ==
    extractCall.done =>
        /\ RunEndPositions(extractCall.events) = {} => extractCall.ret.exc = "ValueError"
        /\ \A i \in DOMAIN extractCall.events :
              IsLastRunEnd(extractCall.events, i) =>
                  /\ extractCall.ret.exc = ""
                  /\ extractCall.ret.sig.run_end = SummaryOf(extractCall.events[i])

\* A full run_end, a frame, then a run_end with status and frames only: the
\* summary has the second one's status and no outcome or checksum.
C15_Witness ==
    /\ extractCall.done
    /\ extractCall.events = <<FullRunEnd, FrameEvent(JInt(80), JInt(24)), PartialRunEnd>>
    /\ extractCall.ret.exc = ""
    /\ extractCall.ret.sig.run_end.status = <<"e">>
    /\ extractCall.ret.sig.run_end.outcome = <<>>
    /\ extractCall.ret.sig.run_end.checksum_chain = <<>>
    /\ extractCall.ret.sig.run_end.frames = 0

(***************************************************************************)
(* C16                                                                     *)
(***************************************************************************)
\* The path of an indexed check at index i.
IndexedPath(prefix, i, suffix) == prefix \o NatToChars(i) \o suffix

\* The indexes a path of this form can carry.
PathIndexes(path, prefix, suffix) ==
    {i \in 0..MaxSigItems : path = IndexedPath(prefix, i, suffix)}

\* The place of an indexed check: <<0, 0, 0>> when the path has no index.
IndexedPlace(check, indexes, within) ==
    IF indexes = {} THEN <<0, 0, 0>> ELSE <<check, Least(indexes), within>>

\* The place of a check without index: <<0, 0, 0>> when the path is another.
PlainPlace(check, within, path, expected_path) ==
    IF path = expected_path THEN <<check, 0, within>> ELSE <<0, 0, 0>>

\* The place of a run_end_mismatch diff, by the field its path names.
RunEndPlace(path) ==
    CASE path = Text("run_end.") \o Text("status") -> <<1, 0, 0>>
      [] path = Text("run_end.") \o Text("outcome") -> <<1, 0, 1>>
      [] path = Text("run_end.") \o Text("frames") -> <<1, 0, 2>>
      [] OTHER -> <<0, 0, 0>>

\* The place of a diff in the order of the checks: the check, the index within
\* an indexed check, and the check within one index. <<0, 0, 0>> for a diff
\* that no check emits.
CheckPlace(diff) ==
    CASE diff.class = Text("run_end_mismatch") -> RunEndPlace(diff.path)
      [] diff.class = Text("resize_inputs_length")
            -> PlainPlace(2, 0, diff.path, Text("resize_inputs.length"))
      [] diff.class = Text("resize_input_geometry")
            -> IndexedPlace(3, PathIndexes(diff.path, Text("resize_inputs["),
                                           Text("].cols_rows")), 0)
      [] diff.class = Text("resize_input_hash_key")
            -> IndexedPlace(3, PathIndexes(diff.path, Text("resize_inputs["),
                                           Text("].hash_key")), 1)
      [] diff.class = Text("geometry_sequence_length")
            -> PlainPlace(4, 0, diff.path, Text("geometry_sequence.length"))
      [] diff.class = Text("geometry_sequence_value")
            -> IndexedPlace(5, PathIndexes(diff.path, Text("geometry_sequence["), Text("]")), 0)
      [] diff.class = Text("frame_count")
            -> PlainPlace(6, 0, diff.path, Text("frames.length"))
      [] diff.class = Text("final_frame_geometry")
            -> PlainPlace(7, 0, diff.path, Text("frames[-1].cols_rows"))
      [] diff.class = Text("final_frame_hash_key")
            -> PlainPlace(8, 0, diff.path, Text("frames[-1].hash_key"))
      [] OTHER -> <<0, 0, 0>>

\* Place p comes strictly before place q.
Before(p, q) ==
    \/ p[1] < q[1]
    \/ p[1] = q[1] /\ p[2] < q[2]
    \/ p[1] = q[1] /\ p[2] = q[2] /\ p[3] < q[3]

\* C16: the diffs compare_signatures returns are in check order: run_end
\* status, outcome, frames; resize_inputs_length; the resize diffs by ascending
\* index, geometry before hash_key at one index; geometry_sequence_length;
\* geometry_sequence_value by ascending index; frame_count;
\* final_frame_geometry; final_frame_hash_key. No diff of an earlier check
\* follows a diff of a later one.
C16_DiffOrder ==
    compareCall.done =>
        LET places == [k \in DOMAIN compareCall.ret |-> CheckPlace(compareCall.ret[k])]
        IN  /\ \A k \in DOMAIN places : places[k] # <<0, 0, 0>>
            /\ \A k \in 1..(Len(places) - 1) : Before(places[k], places[k + 1])

ClassesOf(diffs) == [k \in DOMAIN diffs |-> diffs[k].class]

\* A call where the run_end, the resize input at index 0 and the final frame
\* all differ: seven diffs.
C16_Witness ==
    /\ compareCall.done
    /\ ClassesOf(compareCall.ret) =
          <<Text("run_end_mismatch"), Text("run_end_mismatch"), Text("run_end_mismatch"),
            Text("resize_input_geometry"), Text("resize_input_hash_key"),
            Text("final_frame_geometry"), Text("final_frame_hash_key")>>

(***************************************************************************)
(* C17                                                                     *)
(***************************************************************************)
\* How many of the diffs have this class and this path.
Emitted(diffs, class_name, path) ==
    Cardinality({k \in DOMAIN diffs : diffs[k].class = class_name /\ diffs[k].path = path})

\* How many of the diffs have this class.
EmittedOfClass(diffs, class_name) ==
    Cardinality({k \in DOMAIN diffs : diffs[k].class = class_name})

\* Index i (from 0) is below the length of both lists.
Shared(left, right, i) == i < Len(left) /\ i < Len(right)

\* The entries at index i of both lists differ in (cols, rows); in hash_key.
GeometryDiffers(left, right, i) ==
    Shared(left, right, i)
    /\ (left[i + 1].cols # right[i + 1].cols \/ left[i + 1].rows # right[i + 1].rows)

HashKeyDiffers(left, right, i) ==
    Shared(left, right, i) /\ left[i + 1].hash_key # right[i + 1].hash_key

\* C17: compare_signatures emits a resize_inputs_length diff iff the two
\* resize_inputs lists differ in length; for each index i below the shorter
\* length, and for no other index, it emits a resize_input_geometry diff at
\* resize_inputs[i].cols_rows iff (cols, rows) differ at i, and independently
\* a resize_input_hash_key diff at resize_inputs[i].hash_key iff hash_key
\* differs at i, also when the lengths are unequal.
C17_ResizeChecks ==
    compareCall.done =>
        LET left == compareCall.baseline_sig.resize_inputs
            right == compareCall.target_sig.resize_inputs
            ret == compareCall.ret
        IN  /\ Emitted(ret, Text("resize_inputs_length"), Text("resize_inputs.length"))
                  = (IF Len(left) # Len(right) THEN 1 ELSE 0)
            /\ \A i \in 0..(MaxSigItems + 1) :
                  /\ Emitted(ret, Text("resize_input_geometry"),
                             IndexedPath(Text("resize_inputs["), i, Text("].cols_rows")))
                        = (IF GeometryDiffers(left, right, i) THEN 1 ELSE 0)
                  /\ Emitted(ret, Text("resize_input_hash_key"),
                             IndexedPath(Text("resize_inputs["), i, Text("].hash_key")))
                        = (IF HashKeyDiffers(left, right, i) THEN 1 ELSE 0)
            /\ EmittedOfClass(ret, Text("resize_inputs_length")) <= 1
            /\ EmittedOfClass(ret, Text("resize_input_geometry"))
                  = Cardinality({i \in 0..MaxSigItems : GeometryDiffers(left, right, i)})
            /\ EmittedOfClass(ret, Text("resize_input_hash_key"))
                  = Cardinality({i \in 0..MaxSigItems : HashKeyDiffers(left, right, i)})

\* One resize input against two, the first differing in geometry and in
\* hash_key: the length diff and both diffs of index 0, none of index 1.
C17_Witness ==
    /\ compareCall.done
    /\ Len(compareCall.baseline_sig.resize_inputs) = 1
    /\ Len(compareCall.target_sig.resize_inputs) = 2
    /\ compareCall.baseline_sig.run_end = compareCall.target_sig.run_end
    /\ ClassesOf(compareCall.ret) =
          <<Text("resize_inputs_length"), Text("resize_input_geometry"),
            Text("resize_input_hash_key")>>
    /\ compareCall.ret[2].path = Text("resize_inputs[") \o <<"0">> \o Text("].cols_rows")
    /\ compareCall.ret[3].path = Text("resize_inputs[") \o <<"0">> \o Text("].hash_key")

(***************************************************************************)
(* C18                                                                     *)
(***************************************************************************)
\* sig with other checksums in its run_end.
OtherChecksums(sig) ==
    [sig EXCEPT !.run_end.checksum_chain = <<"c">> \o @, !.run_end.output_sha256 = <<"s">> \o @]

\* sig with another frame_hash in every frame.
OtherFrameHashes(sig) ==
    [sig EXCEPT !.frames = [k \in DOMAIN @ |-> [@[k] EXCEPT !.frame_hash = <<"g">> \o @]]]

\* sig with another hash_key in every frame but the last.
OtherInnerHashKeys(sig) ==
    [sig EXCEPT !.frames =
        [k \in DOMAIN @ |-> IF k = Len(@) THEN @[k] ELSE [@[k] EXCEPT !.hash_key = <<"i">> \o @]]]

\* sig with all three changes.
AllOther(sig) == OtherChecksums(OtherFrameHashes(OtherInnerHashKeys(sig)))

\* Signatures that agree with sig on run_end status, outcome and frames, on
\* resize_inputs, on geometry_sequence, on the number of frames and on the
\* last frame's cols, rows and hash_key, and differ from it elsewhere.
Variants(sig) ==
    {OtherChecksums(sig), OtherFrameHashes(sig), OtherInnerHashKeys(sig), AllOther(sig)} \ {sig}

\* C18: the diff list of compare_signatures depends only on each signature's
\* run_end status, outcome and frames, its resize_inputs, its
\* geometry_sequence, the number of its frames and its last frame's cols, rows
\* and hash_key: a target that differs from the given one only in frame_hash
\* values, in the hash_key of frames other than the last, or in run_end
\* checksum_chain / output_sha256 gives the same list, and so does a baseline
\* that differs from the given one in all of these.
C18_InvariantSurface ==
    compareCall.done =>
        /\ \A variant \in Variants(compareCall.target_sig) :
              compare_signatures(compareCall.baseline_sig, variant) = compareCall.ret
        /\ compare_signatures(AllOther(compareCall.baseline_sig), compareCall.target_sig)
              = compareCall.ret

\* A target of two frames, with four variants, whose last frame differs from
\* the baseline's in hash_key only.
C18_Witness ==
    /\ compareCall.done
    /\ Len(compareCall.target_sig.frames) = 2
    /\ Len(compareCall.baseline_sig.frames) = 2
    /\ Cardinality(Variants(compareCall.target_sig)) = 4
    /\ ClassesOf(compareCall.ret) = <<Text("final_frame_hash_key")>>

(***************************************************************************)
(* C19                                                                     *)
(***************************************************************************)
\* Both lists of frames have a last frame.
BothHaveFrames(left, right) == left # <<>> /\ right # <<>>

\* C19: compare_signatures emits a final_frame_geometry diff iff both
\* signatures have at least one frame and their last frames differ in
\* (cols, rows), and a final_frame_hash_key diff iff both have at least one
\* frame and their last frames differ in hash_key; with no frame on one side
\* it emits neither (frame_count shows the difference), and the frames before
\* the last have no part in it.
C19_FinalFrameCheck ==
    compareCall.done =>
        LET left == compareCall.baseline_sig.frames
            right == compareCall.target_sig.frames
            ret == compareCall.ret
        IN  /\ EmittedOfClass(ret, Text("final_frame_geometry")) =
                  (IF /\ BothHaveFrames(left, right)
                      /\ <<left[Len(left)].cols, left[Len(left)].rows>>
                            # <<right[Len(right)].cols, right[Len(right)].rows>>
                   THEN 1 ELSE 0)
            /\ EmittedOfClass(ret, Text("final_frame_hash_key")) =
                  (IF /\ BothHaveFrames(left, right)
                      /\ left[Len(left)].hash_key # right[Len(right)].hash_key
                   THEN 1 ELSE 0)
            /\ (left = <<>>) # (right = <<>>) =>
                  /\ Emitted(ret, Text("frame_count"), Text("frames.length")) = 1
                  /\ EmittedOfClass(ret, Text("final_frame_geometry")) = 0
                  /\ EmittedOfClass(ret, Text("final_frame_hash_key")) = 0
            /\ EmittedOfClass(ret, Text("final_frame_geometry"))
                  = Emitted(ret, Text("final_frame_geometry"), Text("frames[-1].cols_rows"))
            /\ EmittedOfClass(ret, Text("final_frame_hash_key"))
                  = Emitted(ret, Text("final_frame_hash_key"), Text("frames[-1].hash_key"))

\* One frame against two whose first differs from it and whose last equals
\* it: frame_count is the only diff.
C19_Witness ==
    /\ compareCall.done
    /\ Len(compareCall.baseline_sig.frames) = 1
    /\ Len(compareCall.target_sig.frames) = 2
    /\ compareCall.target_sig.frames[1] # compareCall.baseline_sig.frames[1]
    /\ compareCall.target_sig.frames[2] = compareCall.baseline_sig.frames[1]
    /\ ClassesOf(compareCall.ret) = <<Text("frame_count")>>

(***************************************************************************)
(* C20                                                                     *)
(***************************************************************************)
\* The positions of the diffs that at least one rule matches.
MatchedPositions(diffs, rules, a, b) ==
    {d \in DOMAIN diffs : \E i \in DOMAIN rules : GlobMatches(rules[i], diffs[d], a, b)}

\* The diffs of a returned list, without the fields classify_diffs adds.
BareList(entries) == [k \in DOMAIN entries |-> Bare(entries[k])]

\* C20: classify_diffs splits the diffs in two: known holds, in input order,
\* the diffs that at least one rule matches (class glob, path glob and browser
\* pair in either orientation), unknown holds the others in input order, so
\* each input diff is in exactly one list and len(known) + len(unknown) =
\* len(diffs); with no rule every diff is unknown; class, path, expected,
\* actual and details of each diff are carried over unchanged.
C20_Partition ==
    classifyCall.done =>
        LET diffs == classifyCall.diffs
            ret == classifyCall.ret
            matched == MatchedPositions(diffs, classifyCall.rules,
                                        classifyCall.baseline_browser,
                                        classifyCall.target_browser)
        IN  /\ Len(ret.known) + Len(ret.unknown) = Len(diffs)
            /\ BareList(ret.known) = Pick(diffs, matched, 1)
            /\ BareList(ret.unknown) = Pick(diffs, DOMAIN diffs \ matched, 1)
            /\ classifyCall.rules = <<>> => ret.known = <<>> /\ BareList(ret.unknown) = diffs

\* Two different diffs and rules that match the second only: one diff in each
\* list.
C20_Witness ==
    /\ classifyCall.done
    /\ Len(classifyCall.diffs) = 2
    /\ classifyCall.diffs[1] # classifyCall.diffs[2]
    /\ classifyCall.rules # <<>>
    /\ BareList(classifyCall.ret.known) = <<classifyCall.diffs[2]>>
    /\ BareList(classifyCall.ret.unknown) = <<classifyCall.diffs[1]>>

(***************************************************************************)
(* C21, C22                                                                *)
(***************************************************************************)
\* The rows of a rule file: the positions of its lines that are neither blank
\* nor comments.
RowsOf(lines) ==
    {l \in DOMAIN lines : Strip(lines[l]) # <<>> /\ Head(lines[l]) # "#"}

\* The tab-separated cells of a line as it is written in the file.
CellsOf(line) == Split(line, "\t")

\* The rows with fewer than five cells.
ShortRowsOf(lines) == {l \in RowsOf(lines) : Len(CellsOf(lines[l])) < 5}

\* The rows of the file, in file order.
RowLines(lines) == Pick(lines, RowsOf(lines), 1)

\* C21: parse_known_divergences returns one rule per non-blank, non-# line, in
\* file order; blank lines and comment lines give no rule and no error; the
\* first row with fewer than 5 tab-separated fields aborts parsing with an
\* error that carries the row's 1-based line number, and no rule list is
\* returned.
C21_RuleFileParsing ==
    rulesCall.done =>
        IF ShortRowsOf(rulesCall.lines) = {}
        THEN /\ rulesCall.ret.exc = ""
             /\ Len(rulesCall.ret.rules) = Cardinality(RowsOf(rulesCall.lines))
             /\ \A k \in DOMAIN rulesCall.ret.rules :
                   rulesCall.ret.rules[k].rationale
                      = Strip(CellsOf(RowLines(rulesCall.lines)[k])[5])
        ELSE /\ rulesCall.ret.exc = "ValueError"
             /\ rulesCall.ret.line = Least(ShortRowsOf(rulesCall.lines))
             /\ rulesCall.ret.rules = <<>>

\* The pattern a cell stands for: the cell without surrounding whitespace, or
\* "*" for an empty cell.
PatternOf(cell) == IF Strip(cell) = <<>> THEN <<"*">> ELSE Strip(cell)

\* The rule of a row of five cells, column by column.
RuleOfCells(cells) ==
    [class_pattern |-> PatternOf(cells[1]), left_browser_pattern |-> PatternOf(cells[2]),
     right_browser_pattern |-> PatternOf(cells[3]), path_pattern |-> PatternOf(cells[4]),
     rationale |-> Strip(cells[5])]

\* Every row of the file has five cells.
FiveCellRows(lines) == \A l \in RowsOf(lines) : Len(CellsOf(lines[l])) = 5

\* C22: a rule row of five tab-separated cells in which any of the four
\* pattern cells is empty, the first cell included, is accepted without error;
\* the empty pattern is "*" and the other cells keep their columns.
C22_EmptyCellsMatchAll ==
    (rulesCall.done /\ FiveCellRows(rulesCall.lines)) =>
        /\ rulesCall.ret.exc = ""
        /\ rulesCall.ret.rules =
              [k \in 1..Cardinality(RowsOf(rulesCall.lines)) |->
                  RuleOfCells(CellsOf(RowLines(rulesCall.lines)[k]))]

\* No row of the file starts with an empty cell.
NoLeadingEmptyCell(lines) == \A l \in RowsOf(lines) : Head(lines[l]) # "\t"

\* Both statements for the files in which no row starts with an empty cell.
RuleFileParsingInnerCells ==
    (rulesCall.done /\ NoLeadingEmptyCell(rulesCall.lines)) =>
        /\ C21_RuleFileParsing
        /\ C22_EmptyCellsMatchAll

(***************************************************************************)
(* C23                                                                     *)
(***************************************************************************)
\* The comparisons of a run that reaches them, from the arguments other than
\* --max-printed-unknown.
ComparisonsOf(ts, baseline, rules, mode) ==
    CompareLoop(ts, LoadLoop(ts, 1, <<>>).sigs, baseline, rules, mode, 1)

\* The report of such a run, from the same arguments.
ReportOf(ts, baseline, rules, mode) ==
    LET cs == ComparisonsOf(ts, baseline, rules, mode)
    IN  [suite |-> "remote_resize_storm_cross_browser_diff",
         mode |-> mode,
         baseline_browser |-> baseline,
         trace_inputs |-> ts,
         known_divergence_rules_loaded |-> Len(rules),
         summary |-> [total_comparisons |-> Len(cs),
                      total_diffs |-> SumOver(cs, "total"),
                      known_diffs |-> SumOver(cs, "known"),
                      unknown_diffs |-> SumOver(cs, "unknown"),
                      status |-> OverallStatus(SumOver(cs, "unknown"), mode)],
         comparisons |-> cs]

\* The report as --trace, --baseline, --known and --mode alone give it.
ReportOfArgs ==
    LET ts == parse_trace_args(args.trace).traces
    IN  ReportOf(ts, BaselineOr(Strip(args.baseline), ts[1].browser),
                 parse_known_divergences(args.known # <<>>, RuleFile(args.known)).rules,
                 args.mode)

\* The lines of stdout that print an unknown diff; the truncation notices.
DiffLines == {k \in DOMAIN stdout : stdout[k].kind = "diff"}
TruncationNotices == {k \in DOMAIN stdout : stdout[k].kind = "truncated"}

\* C23: the written report, every field of it, and the exit code are those
\* that --trace, --baseline, --known and --mode give, whatever the value N of
\* --max-printed-unknown; N only bounds the unknown-diff lines on stdout,
\* which are at most max(N, 0).
C23_MaxPrintedOutputOnly ==
    report_file # <<>> =>
        /\ Report = ReportOfArgs
        /\ pc = "done" => exit_code = (IF ReportOfArgs.summary.status = "fail" THEN 1 ELSE 0)
        /\ Cardinality(DiffLines)
              <= (IF args.max_printed_unknown > 0 THEN args.max_printed_unknown ELSE 0)

\* A finished run with N = 1 and four unknown diffs in its report: one of
\* them is printed.
C23_Witness ==
    /\ pc = "done"
    /\ report_file # <<>>
    /\ args.max_printed_unknown = 1
    /\ Report.summary.unknown_diffs = 4
    /\ Cardinality(DiffLines) = 1

\* A finished run with a negative N and unknown diffs in its report: none of
\* them is printed.
NegativeLimitRun ==
    /\ pc = "done"
    /\ report_file # <<>>
    /\ args.max_printed_unknown < 0
    /\ Report.summary.unknown_diffs > 0
    /\ DiffLines = {}

(***************************************************************************)
(* C24                                                                     *)
(***************************************************************************)
\* The run has printed its summary.
SummaryPrinted == report_file # <<>> /\ pc \in {"return", "done"}

\* C24: whenever the unknown diffs of all comparisons are more than the value
\* N of --max-printed-unknown, so that some of them are not printed, the
\* truncation notice is printed exactly once, also when the N-th printed diff
\* is the last unknown diff of its comparison and a later comparison has more.
C24_TruncationAnnounced ==
    (/\ SummaryPrinted
     /\ Report.summary.unknown_diffs > args.max_printed_unknown
     /\ Cardinality(DiffLines) < Report.summary.unknown_diffs) =>
        Cardinality(TruncationNotices) = 1

\* The N-th printed diff is the last unknown diff of a comparison: the unknown
\* diffs of the first comparisons that have any add up to exactly N.
LimitAtComparisonEnd ==
    \E k \in DOMAIN Report.comparisons :
        /\ Report.comparisons[k].unknown_diffs # <<>>
        /\ SumOver(SubSeq(Report.comparisons, 1, k), "unknown") = args.max_printed_unknown

\* The same without the runs in which the N-th printed diff ends a comparison
\* or no diff may be printed while the first comparison has no unknown diff:
\* there the notice is printed once, and it is never printed twice.
TruncationAnnouncedWithin ==
    SummaryPrinted =>
        /\ Cardinality(TruncationNotices) <= 1
        /\ (/\ Report.summary.unknown_diffs > args.max_printed_unknown
            /\ ~LimitAtComparisonEnd
            /\ args.max_printed_unknown > 0 \/ Report.comparisons[1].unknown_diffs # <<>>)
              => /\ Cardinality(TruncationNotices) = 1
                 /\ Cardinality(DiffLines) < Report.summary.unknown_diffs
        /\ Report.summary.unknown_diffs <= args.max_printed_unknown
              => TruncationNotices = {}

\* A finished run in which the N-th printed diff ended a comparison, a later
\* comparison has further unknown diffs and no notice was printed.
SilentTruncation ==
    /\ SummaryPrinted
    /\ args.max_printed_unknown = 1
    /\ LimitAtComparisonEnd
    /\ Report.summary.unknown_diffs = 4
    /\ Cardinality(DiffLines) = 1
    /\ TruncationNotices = {}

(***************************************************************************)
(* compare_signatures applied to pairs of signatures that                  *)
(* extract_signature returns                                               *)
(***************************************************************************)
MaxFrames == 3

\* Frame events: two geometries, cols given as a string, cols absent.
TraceFrameEvents ==
    {FrameEvent(JInt(80), JInt(24)), FrameEvent(JInt(100), JInt(30)),
     FrameEvent(JStr(<<"8", "0">>), JInt(24)), FrameEvent(JNone, JInt(24))}

\* The signatures of the traces of up to MaxFrames frame events and a run_end.
ExtractedSignatures ==
    {extract_signature(Append(frames, RunEndEvent)).sig :
        frames \in SeqsUpTo(TraceFrameEvents, MaxFrames)}

CompareExtractedInit ==
    /\ \E baseline_sig \in ExtractedSignatures, target_sig \in ExtractedSignatures :
          compareCall = [baseline_sig |-> baseline_sig, target_sig |-> target_sig,
                         done |-> FALSE, ret |-> <<>>]
    /\ extractCall = ExtractIdle
    /\ classifyCall = ClassifyIdle
    /\ rulesCall = RulesIdle
    /\ MainIdle

SpecCompareExtracted == CompareExtractedInit /\ [][CompareSignatures]_vars

(***************************************************************************)
(* C25                                                                     *)
(***************************************************************************)
\* The last entry of the signature's geometry_sequence is the "{cols}x{rows}"
\* of its last frame, and the sequence is empty exactly when frames is.
GeometryEndsAtLastFrame(sig) ==
    /\ (sig.geometry_sequence = <<>>) = (sig.frames = <<>>)
    /\ sig.frames # <<>> =>
          sig.geometry_sequence[Len(sig.geometry_sequence)]
              = Geom(sig.frames[Len(sig.frames)].cols, sig.frames[Len(sig.frames)].rows)

\* C25: for two signatures produced by extract_signature, a
\* final_frame_geometry diff from compare_signatures comes with at least one
\* geometry_sequence_length or geometry_sequence_value diff; in each signature
\* the last geometry_sequence entry is the last frame's geometry and
\* geometry_sequence is empty iff frames is empty.
C25_FinalGeometryCovered ==
    /\ GeometryEndsAtLastFrame(compareCall.baseline_sig)
    /\ GeometryEndsAtLastFrame(compareCall.target_sig)
    /\ (compareCall.done
        /\ EmittedOfClass(compareCall.ret, Text("final_frame_geometry")) > 0) =>
          EmittedOfClass(compareCall.ret, Text("geometry_sequence_length"))
              + EmittedOfClass(compareCall.ret, Text("geometry_sequence_value")) > 0

\* Three frames against two, last geometries 80x24 and 100x30: the final-frame
\* diff comes with a length diff and no value diff.
C25_Witness ==
    /\ compareCall.done
    /\ Len(compareCall.baseline_sig.frames) = 3
    /\ Len(compareCall.target_sig.frames) = 2
    /\ compareCall.baseline_sig.geometry_sequence = <<Text("80x24"), Text("100x30"), Text("80x24")>>
    /\ compareCall.target_sig.geometry_sequence = <<Text("80x24"), Text("100x30")>>
    /\ EmittedOfClass(compareCall.ret, Text("final_frame_geometry")) = 1
    /\ EmittedOfClass(compareCall.ret, Text("geometry_sequence_length")) = 1
    /\ EmittedOfClass(compareCall.ret, Text("geometry_sequence_value")) = 0

(***************************************************************************)
(* C26                                                                     *)
(***************************************************************************)
\* The sum of a list of numbers.
RECURSIVE Total(_)
Total(ns) == IF ns = <<>> THEN 0 ELSE Head(ns) + Total(Tail(ns))

\* C26: in every written report summary.total_comparisons is the length of
\* comparisons, summary.known_diffs and summary.unknown_diffs are the sums of
\* the lengths of the comparisons' known_diffs and unknown_diffs lists,
\* summary.total_diffs is their sum, and each comparison's total_diffs is
\* len(known_diffs) + len(unknown_diffs).
C26_ReportTotals ==
    report_file # <<>> =>
        LET cs == Report.comparisons
            summary == Report.summary
        IN  /\ summary.total_comparisons = Len(cs)
            /\ summary.known_diffs = Total([k \in DOMAIN cs |-> Len(cs[k].known_diffs)])
            /\ summary.unknown_diffs = Total([k \in DOMAIN cs |-> Len(cs[k].unknown_diffs)])
            /\ summary.total_diffs = summary.known_diffs + summary.unknown_diffs
            /\ \A k \in DOMAIN cs :
                  cs[k].total_diffs = Len(cs[k].known_diffs) + Len(cs[k].unknown_diffs)

\* A report of two comparisons with known and unknown diffs, one of the
\* comparisons holding both kinds.
C26_Witness ==
    /\ report_file # <<>>
    /\ Len(Report.comparisons) = 2
    /\ Report.summary.known_diffs > 0
    /\ Report.summary.unknown_diffs > 0
    /\ \E k \in DOMAIN Report.comparisons :
          /\ Report.comparisons[k].known_diffs # <<>>
          /\ Report.comparisons[k].unknown_diffs # <<>>

(***************************************************************************)
(* classify_diffs applied to one diff of compare_signatures and the rule   *)
(* that has the diff's path as its path pattern                            *)
(***************************************************************************)
\* The highest index in a diff path.
MaxPathIndex == 10

\* A signature with n resize inputs, n frames and n geometries, the last of
\* each and the run_end summary being other ones when changed.
PathSignature(n, changed) ==
    [run_end |-> [status |-> IF changed THEN <<"e", "r", "r">> ELSE <<"o", "k">>,
                  outcome |-> IF changed THEN <<"f", "a", "i", "l">> ELSE <<"p", "a", "s", "s">>,
                  frames |-> IF changed THEN n + 1 ELSE n,
                  checksum_chain |-> IF changed THEN <<"c", "2">> ELSE <<"c", "1">>,
                  output_sha256 |-> IF changed THEN <<"s", "2">> ELSE <<"s", "1">>],
     resize_inputs |->
        [k \in 1..n |-> IF changed /\ k = n
                        THEN [cols |-> 100, rows |-> 30, hash_key |-> H2]
                        ELSE [cols |-> 80, rows |-> 24, hash_key |-> H1]],
     frames |->
        [k \in 1..n |-> IF changed /\ k = n
                        THEN [cols |-> 100, rows |-> 30, frame_hash |-> <<"f">>, hash_key |-> H2]
                        ELSE [cols |-> 80, rows |-> 24, frame_hash |-> <<"f">>, hash_key |-> H1]],
     geometry_sequence |->
        [k \in 1..n |-> IF changed /\ k = n THEN Geom(100, 30) ELSE Geom(80, 24)]]

DiffsOf(baseline_sig, target_sig) ==
    {compare_signatures(baseline_sig, target_sig)[k] :
        k \in DOMAIN compare_signatures(baseline_sig, target_sig)}

\* Diffs of compare_signatures with every path it writes: the run_end fields,
\* the three lengths, the indexes 0..MaxPathIndex and the final frame.
ProducedDiffs ==
    UNION {DiffsOf(PathSignature(n, FALSE), PathSignature(n, TRUE))
               \cup DiffsOf(PathSignature(n, FALSE), PathSignature(n - 1, FALSE)) :
           n \in 1..(MaxPathIndex + 1)}

\* The rule (*, *, *, path) written for the diff.
LiteralPathRule(diff) ==
    KnownDivergence(Text("*"), Text("*"), Text("*"), diff.path, <<"r">>)

LiteralPathInit ==
    /\ \E diff \in ProducedDiffs, a \in ClassifyLabels, b \in ClassifyLabels :
          classifyCall = [ClassifyIdle EXCEPT !.diffs = <<diff>>,
                                              !.rules = <<LiteralPathRule(diff)>>,
                                              !.baseline_browser = a, !.target_browser = b,
                                              !.done = FALSE]
    /\ extractCall = ExtractIdle
    /\ compareCall = CompareIdle
    /\ rulesCall = RulesIdle
    /\ MainIdle

SpecLiteralPath == LiteralPathInit /\ [][ClassifyDiffsBothWays]_vars

(***************************************************************************)
(* C27                                                                     *)
(***************************************************************************)
\* The path has an index: resize_inputs[i]..., geometry_sequence[i], frames[-1]...
HasBracket(path) == \E p \in DOMAIN path : path[p] = "["

\* The call's one diff is classified as known.
ClassifiedKnown(ret) == Len(ret.known) = 1 /\ ret.unknown = <<>>

\* The call's one diff is left unknown.
ClassifiedUnknown(ret) == ret.known = <<>> /\ Len(ret.unknown) = 1

\* C27 as stated: for every diff path compare_signatures can produce, the rule
\* with that path written verbatim as path_pattern and `*` for class and both
\* browser patterns matches the diff and classifies it as known.
C27_LiteralPathSuppresses ==
    classifyCall.done =>
        /\ MatchedRule(classifyCall.diffs[1], classifyCall.baseline_browser,
                       classifyCall.target_browser, classifyCall.rules) = 1
        /\ ClassifiedKnown(classifyCall.ret)

\* C27, amended: the verbatim path as path_pattern classifies the diff as
\* known for the paths without an index (run_end.<field>, resize_inputs.length,
\* geometry_sequence.length, frames.length); for the paths with one
\* (resize_inputs[i].cols_rows, resize_inputs[i].hash_key, geometry_sequence[i],
\* frames[-1].cols_rows, frames[-1].hash_key) the glob reads [i] and [-1] as
\* character classes, the pattern does not match the path and the diff stays
\* unknown.
C27_UnindexedPathSuppresses ==
    classifyCall.done =>
        IF HasBracket(classifyCall.diffs[1].path)
        THEN /\ ~fnmatchcase(classifyCall.diffs[1].path, classifyCall.rules[1].path_pattern)
             /\ ClassifiedUnknown(classifyCall.ret)
             /\ ClassifiedUnknown(classifyCall.swapped)
        ELSE /\ MatchedRule(classifyCall.diffs[1], classifyCall.baseline_browser,
                            classifyCall.target_browser, classifyCall.rules) = 1
             /\ ClassifiedKnown(classifyCall.ret)
             /\ ClassifiedKnown(classifyCall.swapped)

\* The rule (*, *, *, resize_inputs.length) has made its diff known.
C27_Witness ==
    /\ classifyCall.done
    /\ classifyCall.diffs[1].path = Text("resize_inputs.length")
    /\ classifyCall.rules[1].path_pattern = Text("resize_inputs.length")
    /\ Len(classifyCall.ret.known) = 1
    /\ classifyCall.ret.known[1].known_rationale = <<"r">>

\* The rule (*, *, *, frames[-1].cols_rows) has left its diff unknown.
IndexedPathUnknown ==
    /\ classifyCall.done
    /\ classifyCall.diffs[1].path = Text("frames[-1].cols_rows")
    /\ classifyCall.rules[1].path_pattern = Text("frames[-1].cols_rows")
    /\ ClassifiedUnknown(classifyCall.ret)

====
